---- MODULE Spec2Model ----
(***************************************************************************)
(* A model of claudeconvo / claudelog: the option-string filter            *)
(* (ShowOptions), the adaptive entry normalizer (AdaptiveParser), the      *)
(* tool-invocation tracker, the entry formatter and the polling session    *)
(* watcher (watch_session_file).                                           *)
(*                                                                         *)
(* Characters are one-character strings, option strings are sequences of   *)
(* characters, JSON objects are functions from key names to tagged values. *)
(***************************************************************************)
EXTENDS Integers, Sequences, FiniteSets, TLC

VARIABLES
    \* ---- option parsing (ShowOptions / main) ----
    opt_pc,          \* "start" | "ready" | "exited": where main() is
    options_string,  \* the string given to ShowOptions(...)
    show_options,    \* attribute -> BOOLEAN: the ShowOptions object
    status_printed,  \* what print_status printed: <<>> or <<set of enabled attrs>>
    exit_status,     \* -1 while running, else the status of sys.exit
    rendered_count,  \* entries main() has handed to the formatter
    trunc_query,     \* last should_truncate / get_max_length query and its answers
    \* ---- entry normalization (AdaptiveParser) ----
    raw_entry,       \* the JSON value last handed to parse_entry
    normalized,      \* the dict parse_entry returned for it
    parse_pc,        \* "idle" before parse_entry has run on raw_entry, "done" after
                     \* it returned, "raised" after an exception left it
    field_aliases,   \* self.field_aliases of the AdaptiveParser object
    parse_calls,     \* the calls of parse_entry made on one parser object: the
                     \* entry given, the entry as it is after the call, the result
    \* ---- tool-invocation tracker ----
    tool_invocations, \* the tracker's table: tool-call id -> recorded invocation
    track_log,       \* the tool_use items recorded so far, in order
    resolved,        \* the last lookup: the entry asked about, how many items had
                     \* been recorded before it, and what it resolved to
    \* ---- text extraction (_extract_text_from_content) ----
    content_in,      \* the content handed to _extract_text_from_content
    extracted,       \* what the call returned
    extract_pc,      \* "idle" before the call, "call" while a call is being
                     \* entered or is running, "return" while a value travels
                     \* back to the caller, "done" after the outermost call
                     \* returned
    call_stack,      \* the calls of _extract_text_from_content in progress,
                     \* outermost first: the content of each and the position
                     \* its dict branch has reached
    \* ---- session file reader (parse_session_file) ----
    filepath_arg,    \* the path parse_session_file is called with
    session_file,    \* the session file on disk: its lines and the bytes of
                     \* blank lines that follow them
    parse_patch,     \* the exception a patched AdaptiveParser.parse_entry raises
                     \* (test_session_parser_error_sanitization), or NoPatch
    filepath,        \* the local filepath after Path(filepath).resolve()
    session_pc,      \* "start" | "size" | "open" | "lines" | "returned"
    sessions,        \* the list parse_session_file builds and returns
    stderr,          \* what it printed to sys.stderr
    fs_calls,        \* the stat and open calls made on files, in order
    session_line,    \* number of lines of the file read so far
    \* ---- formatter (format_conversation_entry) ----
    conversation,    \* the entries of a conversation, in order
    normalized_first, \* TRUE when each entry goes through parse_entry before it
                     \* is formatted (the display path), FALSE when it is handed
                     \* to format_conversation_entry as it is (the tests)
    outputs,         \* what format_conversation_entry gave for the entries
                     \* formatted so far
    \* ---- session watcher (watch_session_file) ----
    file,            \* the session file: the sequence of its lines, as written
    watch_pc,        \* where watch_session_file is: "idle" | "check_esc" | "stat" |
                     \* "read" | "sleep" | "stopped" | "crashed"
    last_size,       \* size of the file when it was last read
    current_size,    \* st_size the current tick got from stat()
    line_num,        \* number of lines the current read has consumed
    seen_entries,    \* set of stripped line texts already handled
    stdout,          \* what the watcher printed: line number, line text, output
    poll_mark,       \* Len(stdout) when the current tick began
    batch_from,      \* number of lines the file had when the tick before the
                     \* current one finished looking at it
    end_len,         \* number of lines the file had when the current tick
                     \* finished looking at it
    loads_calls,     \* the line texts handed to json.loads, in order
    \* ---- the terminal of watch_session_file ----
    keys_to_come,    \* keys the user is still going to press
    stdin_fd,        \* keys the terminal delivered that no read() took yet
    stdin_buffer,    \* characters sys.stdin read ahead and holds in its buffer
    has_termios,     \* HAS_TERMIOS: the termios and tty modules were imported
    stdin_isatty,    \* standard input is a terminal
    old_settings,    \* "None" | "saved"
    tty_mode,        \* mode of the terminal: "cooked" | "cbreak"
    tcsetattr_calls, \* outcomes of the calls of termios.tcsetattr
    \* ---- the producer of the session file ----
    producer_lines,  \* line texts the producer writes
    truncations_left,\* number of times the file is still going to be emptied
    file_gone        \* the file was removed

trackVars == <<tool_invocations, track_log, resolved>>

optVars == <<opt_pc, options_string, show_options, status_printed, exit_status,
             rendered_count, trunc_query>>

parseVars == <<raw_entry, normalized, parse_pc, field_aliases, parse_calls>>

termVars == <<keys_to_come, stdin_fd, stdin_buffer, has_termios, stdin_isatty,
              old_settings, tty_mode, tcsetattr_calls>>

prodVars == <<producer_lines, truncations_left, file_gone>>

watchVars == <<file, watch_pc, last_size, current_size, line_num, seen_entries,
               stdout, poll_mark, batch_from, end_len, loads_calls, termVars,
               prodVars>>

extractVars == <<content_in, extracted, extract_pc, call_stack>>

sessVars == <<filepath_arg, session_file, parse_patch, filepath, session_pc, sessions,
              stderr, fs_calls, session_line>>

formatVars == <<conversation, normalized_first, outputs>>

vars == <<optVars, parseVars, trackVars, watchVars, extractVars, sessVars, formatVars>>

(***************************************************************************)
(* Bounds                                                                  *)
(***************************************************************************)
MaxOptLen == 3        \* longest option string explored
MaxRendered == 2      \* entries main() renders before the model stops counting
MaxTracked == 2       \* tool_use items recorded in one session
MaxLines == 3         \* lines the producer writes to the watched file
MaxCalls == 3         \* calls of parse_entry made on one parser object
MaxNest == 22         \* deepest nesting of a content handed to text extraction
MaxItems == 3         \* longest list content handed to text extraction
MaxFileLines == 3     \* most lines of a file handed to parse_session_file
MaxEntries == 2       \* most entries of a conversation handed to the formatter
MaxKeys == 2          \* most keys the user presses while a file is watched
MaxTruncations == 1   \* most times a watched file is emptied

(***************************************************************************)
(* Generic helpers                                                         *)
(***************************************************************************)
Min(S) == CHOOSE x \in S : \A y \in S : x <= y

Max(S) == CHOOSE x \in S : \A y \in S : x >= y

SeqsUpTo(S, n) == UNION {[1..k -> S] : k \in 0..n}

RECURSIVE FilterSeq(_, _)
\* the subsequence of s whose elements are not c (str.replace(c, ''))
FilterSeq(s, c) ==
    IF s = <<>> THEN <<>>
    ELSE IF Head(s) = c THEN FilterSeq(Tail(s), c)
         ELSE <<Head(s)>> \o FilterSeq(Tail(s), c)

(***************************************************************************)
(* ShowOptions (claudelog.py)                                              *)
(***************************************************************************)
\* ShowOptions.OPTIONS: (flag_char, attribute_name), in declaration order
OPTIONS == <<
    <<"q", "user">>, <<"w", "assistant">>, <<"s", "summaries">>,
    <<"h", "hooks">>, <<"m", "metadata">>, <<"c", "commands">>,
    <<"y", "system">>, <<"t", "tool_details">>, <<"o", "tools">>,
    <<"e", "errors">>, <<"r", "request_ids">>, <<"f", "flow">>,
    <<"u", "unfiltered">>, <<"d", "diagnostics">>, <<"p", "paths">>,
    <<"l", "levels">>, <<"k", "sidechains">>, <<"v", "user_types">>,
    <<"a", "all">> >>

Attrs == {OPTIONS[i][2] : i \in 1..Len(OPTIONS)}

\* the toggles print_status reports: every attribute but the meta-option 'all'
Toggles == Attrs \ {"all"}

DEFAULT_ENABLED == {"user", "assistant", "tools"}

\* str.isupper / str.lower on the ASCII letters: upper-case letter -> lower-case
UPPERCASE == [A |-> "a", B |-> "b", C |-> "c", D |-> "d", E |-> "e", F |-> "f",
              G |-> "g", H |-> "h", I |-> "i", J |-> "j", K |-> "k", L |-> "l",
              M |-> "m", N |-> "n", O |-> "o", P |-> "p", Q |-> "q", R |-> "r",
              S |-> "s", T |-> "t", U |-> "u", V |-> "v", W |-> "w", X |-> "x",
              Y |-> "y", Z |-> "z"]

isupper(c) == c \in DOMAIN UPPERCASE

lower(c) == IF isupper(c) THEN UPPERCASE[c] ELSE c

\* ShowOptions.__init__, first loop: every attribute False
AllFalse == [attr \in Attrs |-> FALSE]

\* "for attr in self.DEFAULT_ENABLED: setattr(self, attr, True)"
SetDefaults(o) == [attr \in Attrs |-> IF attr \in DEFAULT_ENABLED THEN TRUE ELSE o[attr]]

\* ApplyChar with a character that matches no option clearing the object
ApplyChar_unknownClears(o, char) ==
    IF char = "A" THEN [attr \in Attrs |-> FALSE]
    ELSE IF char = "a" THEN [attr \in Attrs |-> IF attr # "all" THEN TRUE ELSE o[attr]]
    ELSE LET matches == {i \in 1..Len(OPTIONS) : lower(char) = OPTIONS[i][1]}
         IN  IF matches = {} THEN [attr \in Attrs |-> FALSE]
             ELSE [o EXCEPT ![OPTIONS[Min(matches)][2]] = ~isupper(char)]

\* one iteration of the character loop of parse_options_internal
ApplyChar(o, char) ==
    IF char = "A" THEN [attr \in Attrs |-> FALSE]
    ELSE IF char = "a" THEN [attr \in Attrs |-> IF attr # "all" THEN TRUE ELSE o[attr]]
    ELSE LET matches == {i \in 1..Len(OPTIONS) : lower(char) = OPTIONS[i][1]}
         IN  IF matches = {} THEN o
             ELSE [o EXCEPT ![OPTIONS[Min(matches)][2]] = ~isupper(char)]

RECURSIVE ApplyChars_rightToLeft(_, _)
\* the character loop run from the last character to the first
ApplyChars_rightToLeft(o, s) ==
    IF s = <<>> THEN o
    ELSE ApplyChars_rightToLeft(ApplyChar(o, s[Len(s)]), SubSeq(s, 1, Len(s) - 1))

RECURSIVE ApplyChars(_, _)
\* "for char in options_string: ..."
ApplyChars(o, s) ==
    IF s = <<>> THEN o ELSE ApplyChars(ApplyChar(o, Head(s)), Tail(s))

\* parse_options_internal without its "start with defaults" loop
parse_options_internal_noDefaults(o, s) == ApplyChars(o, s)

\* ShowOptions.parse_options_internal
parse_options_internal(o, s) == ApplyChars(SetDefaults(o), s)

Enabled(o) == {attr \in Toggles : o[attr]}

\* parse_options whose '?' branch prints the status but does not call sys.exit
parse_options_noExit(o, s) ==
    IF \E i \in 1..Len(s) : s[i] = "?"
    THEN LET temp_options == FilterSeq(s, "?")
             o2 == IF temp_options # <<>>
                   THEN parse_options_internal(o, temp_options)
                   ELSE SetDefaults(o)
         IN  [opts |-> o2, printed |-> <<Enabled(o2)>>, exited |-> FALSE, status |-> -1]
    ELSE [opts |-> parse_options_internal(o, s), printed |-> <<>>,
          exited |-> FALSE, status |-> -1]

\* ShowOptions.parse_options: the object, what was printed, and whether
\* sys.exit(0) was called
parse_options(o, s) ==
    IF \E i \in 1..Len(s) : s[i] = "?"
    THEN LET temp_options == FilterSeq(s, "?")
             o2 == IF temp_options # <<>>
                   THEN parse_options_internal(o, temp_options)
                   ELSE SetDefaults(o)
         IN  [opts |-> o2, printed |-> <<Enabled(o2)>>, exited |-> TRUE, status |-> 0]
    ELSE [opts |-> parse_options_internal(o, s), printed |-> <<>>,
          exited |-> FALSE, status |-> -1]

\* ShowOptions.__init__
ShowOptions(s) ==
    IF s = <<>>
    THEN [opts |-> SetDefaults(AllFalse), printed |-> <<>>, exited |-> FALSE, status |-> -1]
    ELSE parse_options(AllFalse, s)

\* ShowOptions.should_truncate
should_truncate(o, text_type) ==
    IF o["unfiltered"] THEN FALSE
    ELSE IF text_type = "tool" /\ o["tool_details"] THEN FALSE
    ELSE TRUE

\* float('inf')
Infinity == -1

TextTypes == {"tool_param", "tool_result", "default", "error", "tool"}

\* ShowOptions.get_max_length
get_max_length(o, text_type) ==
    IF ~should_truncate(o, text_type) THEN Infinity
    ELSE CASE text_type = "tool_param" -> 200
           [] text_type = "tool_result" -> 500
           [] text_type = "default" -> 500
           [] text_type = "error" -> (IF o["errors"] THEN 1000 ELSE 500)
           [] OTHER -> 500

(***************************************************************************)
(* JSON values.  Every value is a record of one shape; tag says which      *)
(* field carries it.  A JSON object is a function from key names to        *)
(* values, a JSON array a sequence of values.                              *)
(***************************************************************************)
JNull == [tag |-> "null", str |-> "", obj |-> <<>>, list |-> <<>>]

JStr(s) == [tag |-> "str", str |-> s, obj |-> <<>>, list |-> <<>>]

\* a number, kept by its decimal text
JNum(s) == [tag |-> "num", str |-> s, obj |-> <<>>, list |-> <<>>]

\* True / False, kept as "True" / "False"
JBool(s) == [tag |-> "bool", str |-> s, obj |-> <<>>, list |-> <<>>]

JObj(o) == [tag |-> "obj", str |-> "", obj |-> o, list |-> <<>>]

JList(l) == [tag |-> "list", str |-> "", obj |-> <<>>, list |-> l]

\* Python truthiness ("if not message")
Truthy(v) ==
    CASE v.tag = "null" -> FALSE
      [] v.tag = "str" -> v.str # ""
      [] v.tag = "num" -> v.str # "0"
      [] v.tag = "bool" -> v.str = "True"
      [] v.tag = "obj" -> DOMAIN v.obj # {}
      [] v.tag = "list" -> Len(v.list) > 0
      [] OTHER -> FALSE

\* dict.get(key) with None for a missing key
Get(d, key) == IF key \in DOMAIN d THEN d[key] ELSE JNull

\* the key names of the model that begin with an underscore (str.startswith('_'))
UnderscoreKeys == {"_raw", "_parse_error", "_private", "_unknown_new_field"}

startswith_underscore(key) == key \in UnderscoreKeys

(***************************************************************************)
(* The state of a component that has not run yet                           *)
(***************************************************************************)
\* AdaptiveParser._load_config: the default configuration
default_field_aliases == [
    content     |-> <<"content", "text", "message", "body", "data">>,
    role        |-> <<"role", "type", "sender", "author">>,
    timestamp   |-> <<"timestamp", "time", "created", "createdAt", "datetime">>,
    version     |-> <<"version", "ver", "v">>,
    tool_result |-> <<"toolUseResult", "tool_result", "toolResult", "result", "output">> ]

\* no entry has been handed to the parser
ParseIdle ==
    /\ raw_entry = JNull
    /\ normalized = <<>>
    /\ parse_pc = "idle"
    /\ field_aliases = default_field_aliases
    /\ parse_calls = <<>>

\* ToolInvocationTracker(): an empty table
TrackerEmpty ==
    /\ tool_invocations = <<>>
    /\ track_log = <<>>
    /\ resolved = [asked |-> FALSE, entry |-> <<>>, after |-> 0, result |-> <<>>]

\* an exception: its class name and its message
Exc(class, msg) == [class |-> class, msg |-> msg]

\* no exception
NoException == Exc("", "")

\* AdaptiveParser.parse_entry is not patched
NoPatch == NoException

\* _extract_text_from_content has not been called
ExtractIdle ==
    /\ content_in = JNull
    /\ extracted = JNull
    /\ extract_pc = "idle"
    /\ call_stack = <<>>

\* format_conversation_entry has not been called
FormatIdle ==
    /\ conversation = <<>>
    /\ normalized_first = FALSE
    /\ outputs = <<>>

\* parse_session_file has not been called
SessionIdle ==
    /\ filepath_arg = <<>>
    /\ session_file = [lines |-> <<>>, pad |-> 0]
    /\ parse_patch = NoPatch
    /\ filepath = <<>>
    /\ session_pc = "idle"
    /\ sessions = <<>>
    /\ stderr = <<>>
    /\ fs_calls = <<>>
    /\ session_line = 0

\* watch_session_file has not been called
WatchIdle ==
    /\ file = <<>>
    /\ watch_pc = "idle"
    /\ last_size = 0
    /\ current_size = 0
    /\ line_num = 0
    /\ seen_entries = {}
    /\ stdout = <<>>
    /\ poll_mark = 0
    /\ batch_from = 0
    /\ end_len = 0
    /\ loads_calls = <<>>
    /\ keys_to_come = <<>>
    /\ stdin_fd = <<>>
    /\ stdin_buffer = <<>>
    /\ has_termios = FALSE
    /\ stdin_isatty = FALSE
    /\ old_settings = "None"
    /\ tty_mode = "cooked"
    /\ tcsetattr_calls = <<>>
    /\ producer_lines = {}
    /\ truncations_left = 0
    /\ file_gone = FALSE

(***************************************************************************)
(* AdaptiveParser (parsers/adaptive.py)                                    *)
(***************************************************************************)
\* self.field_aliases.get(name, default)
aliases_get(name, default) ==
    IF name \in DOMAIN field_aliases THEN field_aliases[name] ELSE default

\* a lookup in which the last candidate that is a key wins
_find_field_lastWins(obj, candidates) ==
    LET present == {i \in 1..Len(candidates) : candidates[i] \in DOMAIN obj}
    IN  IF present = {} THEN JNull
        ELSE obj[candidates[CHOOSE i \in present : \A j \in present : j <= i]]

\* AdaptiveParser._find_field: the value of the first candidate that is a key
_find_field(obj, candidates) ==
    LET present == {i \in 1..Len(candidates) : candidates[i] \in DOMAIN obj}
    IN  IF present = {} THEN JNull ELSE obj[candidates[Min(present)]]

\* AdaptiveParser._guess_role
_guess_role(entry) ==
    LET entry_type == _find_field(entry, <<"type", "entryType">>)
    IN  IF entry_type \in {JStr("user"), JStr("human"), JStr("input")} THEN "user"
        ELSE IF entry_type \in {JStr("assistant"), JStr("ai"), JStr("claude"), JStr("output")}
             THEN "assistant"
        ELSE IF entry_type \in {JStr("system"), JStr("info"), JStr("meta")} THEN "system"
        ELSE "unknown"

\* AdaptiveParser._normalize_message_dict
_normalize_message_dict(message) ==
    LET role == _find_field(message, aliases_get("role", <<"role">>))
        content == _find_field(message, aliases_get("content", <<"content">>))
        kept == {"id", "model", "usage", "stop_reason"} \cap DOMAIN message
    IN  [key \in {"role", "content"} \cup kept |->
            IF key = "role" THEN (IF Truthy(role) THEN role ELSE JStr("unknown"))
            ELSE IF key = "content" THEN content
            ELSE message[key]]

\* an exception leaving a call, where a value was expected
PyRaise(exc) == [tag |-> "raise", str |-> exc, obj |-> <<>>, list |-> <<>>]

_extract_message_noIsinstance(entry) ==
    LET found == _find_field(entry, <<"message", "msg", "data", "payload">>)
        message == IF ~Truthy(found) /\ ("content" \in DOMAIN entry \/ "text" \in DOMAIN entry)
                   THEN JObj(entry) ELSE found
    IN  IF ~Truthy(message) THEN JNull
        ELSE IF message.tag = "str" \/ message.tag = "list"
             THEN JObj([role |-> JStr(_guess_role(entry)), content |-> message])
        ELSE IF message.tag = "obj" THEN JObj(_normalize_message_dict(message.obj))
        ELSE PyRaise("TypeError")

\* AdaptiveParser._extract_message
_extract_message(entry) ==
    LET found == _find_field(entry, <<"message", "msg", "data", "payload">>)
        message == IF ~Truthy(found) /\ ("content" \in DOMAIN entry \/ "text" \in DOMAIN entry)
                   THEN JObj(entry) ELSE found
    IN  IF ~Truthy(message) THEN JNull
        ELSE IF message.tag = "str" \/ message.tag = "list"
             THEN JObj([role |-> JStr(_guess_role(entry)), content |-> message])
        ELSE IF message.tag = "obj" THEN JObj(_normalize_message_dict(message.obj))
        ELSE JNull

\* the normalized dict before the unknown-field loop (adaptive.py lines 76-107)
NormalizedFields(entry, entry_type) ==
    [ _raw          |-> JObj(entry),
      type          |-> entry_type,
      timestamp     |-> _find_field(entry, aliases_get("timestamp", <<"timestamp">>)),
      version       |-> _find_field(entry, aliases_get("version", <<"version">>)),
      uuid          |-> _find_field(entry, aliases_get("uuid", <<"uuid", "id">>)),
      sessionId     |-> _find_field(entry, aliases_get("session_id", <<"sessionId">>)),
      requestId     |-> _find_field(entry, aliases_get("request_id", <<"requestId">>)),
      parentUuid    |-> _find_field(entry, aliases_get("parent_uuid", <<"parentUuid">>)),
      message       |-> _extract_message(entry),
      isMeta        |-> _find_field(entry, aliases_get("is_meta", <<"isMeta">>)),
      isSidechain   |-> _find_field(entry, aliases_get("is_sidechain", <<"isSidechain">>)),
      toolUseResult |-> _find_field(entry, aliases_get("tool_result", <<"toolUseResult">>)),
      cwd           |-> _find_field(entry, aliases_get("working_dir", <<"cwd">>)),
      gitBranch     |-> _find_field(entry, aliases_get("git_branch", <<"gitBranch">>)),
      userType      |-> _find_field(entry, aliases_get("user_type", <<"userType">>)),
      level         |-> _find_field(entry, aliases_get("level", <<"level">>)) ]

\* the name a raw key is kept under: f'_unknown_{key}'
unknown_name(key) == "_unknown_" \o key

RECURSIVE KeepUnknown_skipsNone(_, _, _)
\* the unknown-field loop keeping a raw key only when its value is not None
KeepUnknown_skipsNone(norm, entry, keys) ==
    IF keys = {} THEN norm
    ELSE LET key == CHOOSE k \in keys : TRUE
             next == IF key \notin DOMAIN norm /\ ~startswith_underscore(key)
                        /\ entry[key] # JNull
                     THEN (unknown_name(key) :> entry[key]) @@ norm
                     ELSE norm
         IN  KeepUnknown_skipsNone(next, entry, keys \ {key})

RECURSIVE KeepUnknown(_, _, _)
\* "for key, value in entry.items(): if key not in normalized and not
\* key.startswith('_'): normalized[f'_unknown_{key}'] = value"
KeepUnknown(norm, entry, keys) ==
    IF keys = {} THEN norm
    ELSE LET key == CHOOSE k \in keys : TRUE
             next == IF key \notin DOMAIN norm /\ ~startswith_underscore(key)
                     THEN (unknown_name(key) :> entry[key]) @@ norm
                     ELSE norm
         IN  KeepUnknown(next, entry, keys \ {key})

\* AdaptiveParser.parse_entry
parse_entry(raw) ==
    IF raw.tag # "obj"
    THEN [_raw |-> raw, _parse_error |-> JStr("Not a dictionary")]
    ELSE LET entry == raw.obj
             entry_type == _find_field(entry, <<"type", "entryType", "kind">>)
         IN  IF entry_type = JStr("summary") THEN entry
             ELSE KeepUnknown(NormalizedFields(entry, entry_type), entry, DOMAIN entry)

\* an exception leaves parse_entry: the only call in it that is given a value
\* of the entry, rather than the entry, to work on is _extract_message
parse_entry_raises(raw) ==
    /\ raw.tag = "obj"
    /\ _find_field(raw.obj, <<"type", "entryType", "kind">>) # JStr("summary")
    /\ _extract_message(raw.obj).tag = "raise"

(***************************************************************************)
(* Text of values: str(), repr() and json.dumps().  The keys of an object  *)
(* are written in one fixed order (a function keeps no insertion order).   *)
(***************************************************************************)
RECURSIVE SetToSeq(_)
SetToSeq(S) ==
    IF S = {} THEN <<>>
    ELSE LET x == CHOOSE y \in S : TRUE IN <<x>> \o SetToSeq(S \ {x})

RECURSIVE Join(_, _)
\* sep.join(strs)
Join(strs, sep) ==
    IF strs = <<>> THEN ""
    ELSE IF Len(strs) = 1 THEN strs[1]
    ELSE strs[1] \o sep \o Join(Tail(strs), sep)

RECURSIVE py_repr(_)
\* repr(value)
py_repr(v) ==
    CASE v.tag = "null" -> "None"
      [] v.tag = "str" -> "'" \o v.str \o "'"
      [] v.tag = "num" -> v.str
      [] v.tag = "bool" -> v.str
      [] v.tag = "list" ->
            "[" \o Join([i \in 1..Len(v.list) |-> py_repr(v.list[i])], ", ") \o "]"
      [] v.tag = "obj" ->
            LET keys == SetToSeq(DOMAIN v.obj)
            IN  "{" \o Join([i \in 1..Len(keys) |->
                        "'" \o keys[i] \o "': " \o py_repr(v.obj[keys[i]])], ", ") \o "}"
      [] OTHER -> ""

\* str(value)
py_str(v) == IF v.tag = "str" THEN v.str ELSE py_repr(v)

RECURSIVE json_dumps(_)
\* json.dumps(value)
json_dumps(v) ==
    CASE v.tag = "null" -> "null"
      [] v.tag = "str" -> "\"" \o v.str \o "\""
      [] v.tag = "num" -> v.str
      [] v.tag = "bool" -> (IF v.str = "True" THEN "true" ELSE "false")
      [] v.tag = "list" ->
            "[" \o Join([i \in 1..Len(v.list) |-> json_dumps(v.list[i])], ", ") \o "]"
      [] v.tag = "obj" ->
            LET keys == SetToSeq(DOMAIN v.obj)
            IN  "{" \o Join([i \in 1..Len(keys) |->
                        "\"" \o keys[i] \o "\": " \o json_dumps(v.obj[keys[i]])], ", ") \o "}"
      [] OTHER -> ""

(***************************************************************************)
(* AdaptiveParser._extract_text_from_content (parsers/adaptive.py)         *)
(* The result is JNull for None and JStr(text) for a text.                 *)
(***************************************************************************)
RECURSIVE _extract_text_from_content(_)
RECURSIVE FirstFieldText(_, _)
\* "for field in fields: if field in d: text = extract(d[field]); if text:
\* break": the first text that is truthy, else a falsy value
FirstFieldText(d, fields) ==
    IF fields = <<>> THEN JNull
    ELSE LET text == IF Head(fields) \in DOMAIN d
                     THEN _extract_text_from_content(d[Head(fields)]) ELSE JNull
         IN  IF Truthy(text) THEN text ELSE FirstFieldText(d, Tail(fields))

RECURSIVE ListItemTexts(_)
\* the texts list the loop over a list content builds
ListItemTexts(items) ==
    IF items = <<>> THEN <<>>
    ELSE LET item == Head(items)
             here ==
               IF item.tag = "obj"
               THEN LET found == FirstFieldText(item.obj, <<"text", "content", "value", "data">>)
                        text == IF ~Truthy(found) /\ Get(item.obj, "type") = JStr("text")
                                THEN _extract_text_from_content(item)
                                ELSE found
                    IN  IF Truthy(text) THEN <<text.str>> ELSE <<>>
               ELSE IF item.tag = "str" THEN <<item.str>>
               ELSE <<py_str(item)>>
         IN  here \o ListItemTexts(Tail(items))

_extract_text_from_content(content) ==
    CASE content.tag = "null" -> JNull
      [] content.tag = "str" -> content
      [] content.tag \in {"num", "bool"} -> JStr(py_str(content))
      [] content.tag = "list" ->
            LET texts == ListItemTexts(content.list)
            IN  IF texts # <<>> THEN JStr(Join(texts, "\n")) ELSE JNull
      [] content.tag = "obj" ->
            LET text == FirstFieldText(content.obj,
                                       <<"text", "content", "value", "body", "message">>)
            IN  IF Truthy(text) THEN text
                ELSE IF Get(content.obj, "type") = JStr("text")
                        /\ "text" \in DOMAIN content.obj
                     THEN _extract_text_from_content(content.obj["text"])
                ELSE IF Get(content.obj, "type") = JStr("text")
                        /\ "content" \in DOMAIN content.obj
                     THEN _extract_text_from_content(content.obj["content"])
                ELSE JStr(json_dumps(content))
      [] OTHER -> JNull

\* formatters.extract_message_text
extract_message_text(message_content) == _extract_text_from_content(message_content)

(***************************************************************************)
(* String tests of the formatter, by table over the texts of the model     *)
(***************************************************************************)
\* str.strip()
str_strip(text) == IF text = " file1 file2 " THEN "file1 file2" ELSE text

\* text.startswith('Error:')
startswith_Error(text) == text \in {"Error: command failed"}

\* text.startswith('<command-') or text.startswith('<local-command-')
startswith_command(text) == text \in {"<command-name>ls</command-name>"}

\* re.sub(r'<[^>]+>', '', text).strip()
remove_tags(text) ==
    CASE text = "<command-name>ls</command-name>" -> "ls"
      [] text = "<system-reminder>" -> ""
      [] OTHER -> text

\* 'hook' in content.lower() or 'PreToolUse' in content or 'PostToolUse' in content
is_hook_text(text) == text \in {"PreToolUse hook ran", "hook completed successfully"}

\* content.startswith('[1m')
startswith_bold(text) == text \in {"[1mBanner"}

\* 'Error' in content
contains_Error(text) == text \in {"Error: command failed", "Build Error"}

\* 'completed successfully' in content
contains_completed(text) == text \in {"Task completed successfully", "hook completed successfully"}

\* re.sub(r'\[[\d;]*m', '', content)
remove_ansi(text) == IF text = "[1mBanner" THEN "Banner" ELSE text

(***************************************************************************)
(* formatters.py.  A formatted entry is a sequence of output lines; a line *)
(* is its label, its text and the length cap truncate_text was given       *)
(* (Infinity for none).  A call either returns lines or raises.            *)
(***************************************************************************)
Line(kind, text, cap) == [kind |-> kind, text |-> text, cap |-> cap]

Returns(lines) == [raised |-> "", out |-> lines]

Raises(exc) == [raised |-> exc, out |-> <<>>]

\* value[:8] works on strings and lists only
Sliceable(v) == v.tag \in {"str", "list"}

RECURSIVE ToolUseLines(_, _)
\* the loop of format_tool_use over the content items
ToolUseLines(items, o) ==
    IF items = <<>> THEN Returns(<<>>)
    ELSE LET item == Head(items)
             rest == ToolUseLines(Tail(items), o)
         IN  IF ~(item.tag = "obj" /\ Get(item.obj, "type") = JStr("tool_use")) THEN rest
             ELSE LET tool_name == IF "name" \in DOMAIN item.obj THEN item.obj["name"]
                                   ELSE JStr("Unknown Tool")
                      tool_id == IF "id" \in DOMAIN item.obj THEN item.obj["id"] ELSE JStr("")
                      tool_input == IF "input" \in DOMAIN item.obj THEN item.obj["input"]
                                    ELSE JObj(<<>>)
                      head == <<Line("Tool", py_str(tool_name), Infinity)>>
                      idl == IF o["tool_details"] /\ Truthy(tool_id)
                             THEN <<Line("ID", py_str(tool_id), Infinity)>> ELSE <<>>
                      keys == SetToSeq(DOMAIN tool_input.obj)
                      params == [i \in 1..Len(keys) |->
                                   Line("ToolParam",
                                        keys[i] \o ": " \o py_str(tool_input.obj[keys[i]]),
                                        get_max_length(o, "tool_param"))]
                  IN  IF Truthy(tool_input) /\ tool_input.tag # "obj"
                      THEN Raises("AttributeError")
                      ELSE IF rest.raised # "" THEN rest
                      ELSE Returns(head \o idl
                                   \o (IF Truthy(tool_input) THEN params ELSE <<>>)
                                   \o rest.out)

\* formatters.format_tool_use
format_tool_use(entry, o) ==
    LET message == IF "message" \in DOMAIN entry THEN entry["message"] ELSE JObj(<<>>)
        content == IF message.tag = "obj"
                   THEN (IF "content" \in DOMAIN message.obj THEN message.obj["content"]
                         ELSE JList(<<>>))
                   ELSE JNull
    IN  IF content.tag = "list" THEN ToolUseLines(content.list, o) ELSE Returns(<<>>)

RECURSIVE ToolResultItems(_, _)
ToolResultItems(items, cap) ==
    IF items = <<>> THEN <<>>
    ELSE LET item == Head(items)
         IN  (IF item.tag = "obj" /\ "content" \in DOMAIN item.obj
                 /\ item.obj["content"].tag = "str"
              THEN <<Line("ResultItem", item.obj["content"].str, cap)>> ELSE <<>>)
             \o ToolResultItems(Tail(items), cap)

\* formatters.format_tool_result
format_tool_result_none(entry, o) == <<>>

format_tool_result(entry, o) ==
    LET tool_result == Get(entry, "toolUseResult")
        max_len == get_max_length(o, "tool_result")
    IN  IF ~Truthy(tool_result) THEN <<>>
        ELSE IF tool_result.tag = "str"
             THEN LET result == str_strip(tool_result.str)
                  IN  IF startswith_Error(result)
                      THEN <<Line("ToolError", result, get_max_length(o, "error"))>>
                      ELSE <<Line("Result", result, max_len)>>
        ELSE IF tool_result.tag = "list" THEN ToolResultItems(tool_result.list, max_len)
        ELSE <<>>

\* format_conversation_entry, lines 126-166: the metadata lines, a raise, or
\* "skip" for the early return on a hidden sidechain entry
MetadataLines(entry, o) ==
    LET has(key) == key \in DOMAIN entry
        meta_items ==
            (IF has("uuid") THEN <<"uuid:" \o py_str(entry["uuid"])>> ELSE <<>>)
            \o (IF has("sessionId") THEN <<"session:" \o py_str(entry["sessionId"])>> ELSE <<>>)
            \o (IF has("version") THEN <<"v" \o py_str(entry["version"])>> ELSE <<>>)
            \o (IF has("gitBranch") THEN <<"git:" \o py_str(entry["gitBranch"])>> ELSE <<>>)
        meta == IF o["metadata"] /\ meta_items # <<>>
                THEN <<Line("Meta", Join(meta_items, " | "), Infinity)>> ELSE <<>>
        request == IF o["request_ids"] /\ has("requestId")
                   THEN <<Line("Request", py_str(entry["requestId"]), Infinity)>> ELSE <<>>
        showParent == o["flow"] /\ has("parentUuid") /\ Truthy(entry["parentUuid"])
        parent == IF showParent
                  THEN <<Line("Parent", py_str(entry["parentUuid"]), Infinity)>> ELSE <<>>
        path == IF o["paths"] /\ has("cwd")
                THEN <<Line("Path", py_str(entry["cwd"]), Infinity)>> ELSE <<>>
        utype == IF o["user_types"] /\ has("userType")
                 THEN <<Line("UserType", py_str(entry["userType"]), Infinity)>> ELSE <<>>
        level == IF o["levels"] /\ has("level")
                 THEN <<Line("Level", py_str(entry["level"]), Infinity)>> ELSE <<>>
        sidechain == has("isSidechain") /\ Truthy(entry["isSidechain"])
    IN  IF o["metadata"] /\ has("uuid") /\ ~Sliceable(entry["uuid"]) THEN Raises("TypeError")
        ELSE IF o["metadata"] /\ has("sessionId") /\ ~Sliceable(entry["sessionId"])
             THEN Raises("TypeError")
        ELSE IF showParent /\ ~Sliceable(entry["parentUuid"]) THEN Raises("TypeError")
        ELSE IF sidechain /\ ~o["sidechains"] THEN [raised |-> "skip", out |-> <<>>]
        ELSE Returns(meta \o request \o parent \o path \o utype \o level
                     \o (IF sidechain THEN <<Line("Sidechain", "[SIDECHAIN]", Infinity)>>
                         ELSE <<>>))

\* format_conversation_entry, the branch for entry_type == 'user'
FormatUser(entry, o, metadata_lines) ==
    LET message == IF "message" \in DOMAIN entry THEN entry["message"] ELSE JObj(<<>>)
        content == IF message.tag = "obj"
                   THEN (IF "content" \in DOMAIN message.obj THEN message.obj["content"]
                         ELSE JStr(""))
                   ELSE JNull
        text == extract_message_text(content)
        is_command == Truthy(text) /\ startswith_command(text.str)
        shown == IF ~Truthy(text) THEN ""
                 ELSE IF o["commands"] THEN text.str ELSE remove_tags(text.str)
        user_shown == /\ o["user"] /\ message.tag = "obj"
                      /\ ~(is_command /\ ~o["commands"])
                      /\ shown # ""
        user_lines == IF user_shown
                      THEN metadata_lines \o <<Line("User", shown, Infinity)>> ELSE <<>>
        tool_result == IF o["tools"] THEN format_tool_result(entry, o) ELSE <<>>
        tool_lines == IF tool_result # <<>>
                      THEN (IF ~user_shown THEN metadata_lines ELSE <<>>) \o tool_result
                      ELSE <<>>
    IN  Returns(user_lines \o tool_lines)

\* format_conversation_entry, the branch for entry_type == 'assistant'
FormatAssistant(entry, o, metadata_lines) ==
    LET message == IF "message" \in DOMAIN entry THEN entry["message"] ELSE JObj(<<>>)
        content == IF message.tag = "obj"
                   THEN (IF "content" \in DOMAIN message.obj THEN message.obj["content"]
                         ELSE JStr(""))
                   ELSE JNull
        text == extract_message_text(content)
        assistant_shown == o["assistant"] /\ message.tag = "obj" /\ Truthy(text)
        text_lines == IF assistant_shown
                      THEN metadata_lines
                           \o <<Line("Claude", text.str, get_max_length(o, "default"))>>
                      ELSE <<>>
        tool_use == IF o["tools"] THEN format_tool_use(entry, o) ELSE Returns(<<>>)
        tool_lines == IF tool_use.out # <<>>
                      THEN (IF ~assistant_shown THEN metadata_lines ELSE <<>>) \o tool_use.out
                      ELSE <<>>
    IN  IF tool_use.raised # "" THEN tool_use ELSE Returns(text_lines \o tool_lines)

\* format_conversation_entry, the branch for entry_type == 'system'
FormatSystem(entry, o, metadata_lines) ==
    LET content == IF "content" \in DOMAIN entry THEN entry["content"] ELSE JStr("")
        is_hook == is_hook_text(content.str)
        should_show ==
            IF o["system"] THEN TRUE
            ELSE IF is_hook /\ o["hooks"] THEN TRUE
            ELSE IF content.str # "" /\ ~startswith_bold(content.str) /\ ~is_hook
                 THEN contains_Error(content.str) \/ ~contains_completed(content.str)
            ELSE FALSE
    IN  IF content.tag # "str" THEN Raises("AttributeError")
        ELSE IF should_show /\ content.str # ""
             THEN Returns(metadata_lines
                          \o <<Line("System", remove_ansi(content.str), Infinity)>>)
        ELSE Returns(<<>>)

\* formatters.format_conversation_entry with show_timestamp False; out = <<>>
\* stands for the result None
format_conversation_entry(entry, o) ==
    LET entry_type == IF "type" \in DOMAIN entry THEN entry["type"] ELSE JStr("unknown")
        meta == MetadataLines(entry, o)
    IN  IF entry_type = JStr("summary")
        THEN IF ~o["summaries"] THEN Returns(<<>>)
             ELSE Returns(<<Line("Summary",
                                 py_str(IF "summary" \in DOMAIN entry THEN entry["summary"]
                                        ELSE JStr("N/A")), Infinity)>>
                          \o (IF o["metadata"] /\ "leafUuid" \in DOMAIN entry
                              THEN <<Line("Session", py_str(entry["leafUuid"]), Infinity)>>
                              ELSE <<>>))
        ELSE IF Truthy(Get(entry, "isMeta")) /\ ~o["metadata"] THEN Returns(<<>>)
        ELSE IF meta.raised = "skip" THEN Returns(<<>>)
        ELSE IF meta.raised # "" THEN meta
        ELSE IF entry_type = JStr("user") THEN FormatUser(entry, o, meta.out)
        ELSE IF entry_type = JStr("assistant") THEN FormatAssistant(entry, o, meta.out)
        ELSE IF entry_type = JStr("system") THEN FormatSystem(entry, o, meta.out)
        ELSE Returns(<<>>)

(***************************************************************************)
(* Raw entries the normalizer is run on                                    *)
(***************************************************************************)
\* the keys raw entries are built from, each with the values it may carry
SampleValues == [
    type      |-> {JStr("user"), JStr("summary"), JNum("5"), JList(<<JStr("user")>>)},
    kind      |-> {JStr("message"), JStr("summary")},
    timestamp |-> {JStr("t1")},
    time      |-> {JStr("t2")},
    message   |-> {JStr("hi"), JStr(""), JNull, JNum("7"), JBool("True"),
                   JList(<<JStr("a")>>),
                   JObj([role |-> JStr("user"), content |-> JStr("hello")])},
    content   |-> {JStr("flat")},
    result    |-> {JStr("out")},
    new_field |-> {JStr("unknown_value"), JNull} ]

UnderscoreSample == "_private" :> {JStr("p")}

KeySamples == SampleValues @@ UnderscoreSample

RECURSIVE ObjectsOver(_)
\* every object whose keys are among keys, each key with one of its sample values
ObjectsOver(keys) ==
    IF keys = {} THEN {<<>>}
    ELSE LET key == CHOOSE k \in keys : TRUE
             rest == ObjectsOver(keys \ {key})
         IN  rest \cup {(key :> v) @@ e : v \in KeySamples[key], e \in rest}

RawObjects == ObjectsOver(DOMAIN KeySamples)

\* JSON values that are no object
NonObjects == {JStr("text line"), JNum("5"), JNull, JList(<<JStr("a")>>)}

RawInputs == {JObj(o) : o \in RawObjects} \cup NonObjects

InitParse ==
    /\ opt_pc = "start"
    /\ options_string = <<>>
    /\ show_options = AllFalse
    /\ status_printed = <<>>
    /\ exit_status = -1
    /\ rendered_count = 0
    /\ trunc_query = [text_type |-> "none", truncate |-> TRUE, max_length |-> 0]
    /\ raw_entry \in RawInputs
    /\ normalized = <<>>
    /\ parse_pc = "idle"
    /\ field_aliases = default_field_aliases
    /\ parse_calls = <<>>
    /\ TrackerEmpty
    /\ ExtractIdle
    /\ SessionIdle
    /\ FormatIdle
    /\ WatchIdle

\* entry = parser.parse_entry(raw_entry)
ParseEntry ==
    /\ parse_pc = "idle"
    /\ IF parse_entry_raises(raw_entry)
       THEN /\ normalized' = <<>>
            /\ parse_pc' = "raised"
       ELSE /\ normalized' = parse_entry(raw_entry)
            /\ parse_pc' = "done"
    /\ UNCHANGED <<raw_entry, field_aliases, parse_calls, optVars, trackVars, watchVars, extractVars,
                   sessVars, formatVars>>

NextParse == ParseEntry

SpecParse == InitParse /\ [][NextParse]_vars

(***************************************************************************)
(* One AdaptiveParser object normalizing several entries in turn           *)
(***************************************************************************)
\* entries handed to the one parser
RepeatInputs == {
    JObj("time" :> JStr("t2")),
    JObj("timestamp" :> JStr("t1") @@ "time" :> JStr("t2")),
    JObj("type" :> JStr("summary") @@ "summary" :> JStr("s")),
    JObj("type" :> JStr("user") @@ "message" :> JStr("hi")),
    JObj("type" :> JStr("assistant")
         @@ "message" :> JObj("role" :> JStr("assistant") @@ "content" :> JStr("hello"))
         @@ "new_field" :> JStr("unknown_value")),
    JNum("5") }

\* self.field_aliases after parse_entry(entry)
SelfAfterParse_learns(aliases, raw) ==
    IF raw.tag = "obj" /\ "timestamp" \in DOMAIN raw.obj
    THEN [aliases EXCEPT !["timestamp"] = <<"timestamp">>]
    ELSE aliases

\* parse_entry assigns no attribute of self
SelfAfterParse(aliases, raw) == aliases

\* the entry the caller holds after parse_entry(entry): parse_entry assigns
\* no key of entry
EntryAfterParse(raw) == raw

InitRepeat ==
    /\ opt_pc = "start"
    /\ options_string = <<>>
    /\ show_options = AllFalse
    /\ status_printed = <<>>
    /\ exit_status = -1
    /\ rendered_count = 0
    /\ trunc_query = [text_type |-> "none", truncate |-> TRUE, max_length |-> 0]
    /\ ParseIdle
    /\ TrackerEmpty
    /\ ExtractIdle
    /\ SessionIdle
    /\ FormatIdle
    /\ WatchIdle

\* parser.parse_entry(raw) on the parser that made the earlier calls
ParseAnother ==
    /\ Len(parse_calls) < MaxCalls
    /\ \E raw \in RepeatInputs :
         /\ ~parse_entry_raises(raw)
         /\ raw_entry' = EntryAfterParse(raw)
         /\ normalized' = parse_entry(raw)
         /\ parse_calls' = Append(parse_calls, [given |-> raw,
                                                after |-> EntryAfterParse(raw),
                                                result |-> parse_entry(raw)])
         /\ field_aliases' = SelfAfterParse(field_aliases, raw)
    /\ parse_pc' = "done"
    /\ UNCHANGED <<optVars, trackVars, watchVars, extractVars,
                   sessVars, formatVars>>

NextRepeat == ParseAnother

SpecRepeat == InitRepeat /\ [][NextRepeat]_vars

(***************************************************************************)
(* Text extraction run on nested and on list contents                      *)
(***************************************************************************)
\* constants.MAX_RECURSION_DEPTH
MAX_RECURSION_DEPTH == 20

RECURSIVE Nest(_, _, _)
\* base wrapped n times in an object with the one key: the content
\* test_content_extraction_recursion_limit builds
Nest(n, key, base) == IF n = 0 THEN base ELSE JObj(key :> Nest(n - 1, key, base))

NestedContents ==
    {Nest(n, key, base) : n \in 0..MaxNest, key \in {"content", "text"},
                          base \in {JStr("base"), JStr(""), JNum("5"),
                                    JObj("text" :> JStr("base")),
                                    JObj("type" :> JStr("text") @@ "text" :> JStr(""))}}

\* items of a list content
ListItems == {JStr("a"), JStr(""), JNull, JNum("5"), JObj("text" :> JStr("b")),
              JObj("type" :> JStr("image"))}

ListContents == {JList(l) : l \in SeqsUpTo(ListItems, MaxItems)}

InitExtract ==
    /\ opt_pc = "start"
    /\ options_string = <<>>
    /\ show_options = AllFalse
    /\ status_printed = <<>>
    /\ exit_status = -1
    /\ rendered_count = 0
    /\ trunc_query = [text_type |-> "none", truncate |-> TRUE, max_length |-> 0]
    /\ ParseIdle
    /\ TrackerEmpty
    /\ WatchIdle
    /\ SessionIdle
    /\ FormatIdle
    /\ content_in \in NestedContents \cup ListContents
    /\ extracted = JNull
    /\ extract_pc = "idle"
    /\ call_stack = <<>>

\* "for field in ['text', 'content', 'value', 'body', 'message']" followed by
\* "for field in ['text', 'content']" of the type=text special case: the
\* positions 1..5 and 6..7 of a call's dict branch; position 8 is the last
\* resort
DictFields == <<"text", "content", "value", "body", "message", "text", "content">>

Top == call_stack[Len(call_stack)]

Pop == SubSeq(call_stack, 1, Len(call_stack) - 1)

AtPos(pos) == [call_stack EXCEPT ![Len(call_stack)].pos = pos]

\* a call of _extract_text_from_content with this content begins
Called(stack, content) == Append(stack, [content |-> content, pos |-> 1])

\* text = parser._extract_text_from_content(content)
ExtractText ==
    /\ extract_pc = "idle"
    /\ call_stack' = Called(call_stack, content_in)
    /\ extract_pc' = "call"
    /\ UNCHANGED <<content_in, extracted, optVars, parseVars, trackVars, watchVars, sessVars,
                   formatVars>>

\* the call's content is None, a str, a number or a list: the branches that
\* return without the dict loop
ReturnNonDict ==
    /\ extract_pc = "call"
    /\ Top.content.tag # "obj"
    /\ extracted' = _extract_text_from_content(Top.content)
    /\ call_stack' = Pop
    /\ extract_pc' = "return"
    /\ UNCHANGED <<content_in, optVars, parseVars, trackVars, watchVars, sessVars, formatVars>>

\* "if field in content: text = self._extract_text_from_content(content[field])":
\* the dict branch calls itself on the field's value, with no check of how
\* deep the call already is
CallOnField ==
    /\ extract_pc = "call"
    /\ Top.content.tag = "obj"
    /\ Top.pos <= 7
    /\ Top.pos >= 6 => Get(Top.content.obj, "type") = JStr("text")
    /\ DictFields[Top.pos] \in DOMAIN Top.content.obj
    /\ call_stack' = Called(call_stack, Top.content.obj[DictFields[Top.pos]])
    /\ UNCHANGED <<content_in, extracted, extract_pc, optVars, parseVars, trackVars,
                   watchVars, sessVars, formatVars>>

\* the field is not in the dict, or the special case does not apply: the loop
\* goes on
SkipField ==
    /\ extract_pc = "call"
    /\ Top.content.tag = "obj"
    /\ Top.pos <= 7
    /\ \/ DictFields[Top.pos] \notin DOMAIN Top.content.obj
       \/ Top.pos >= 6 /\ Get(Top.content.obj, "type") # JStr("text")
    /\ call_stack' = AtPos(Top.pos + 1)
    /\ UNCHANGED <<content_in, extracted, extract_pc, optVars, parseVars, trackVars,
                   watchVars, sessVars, formatVars>>

\* "return json.dumps(content)": the last resort of the dict branch
ReturnDumps ==
    /\ extract_pc = "call"
    /\ Top.content.tag = "obj"
    /\ Top.pos = 8
    /\ extracted' = JStr(json_dumps(Top.content))
    /\ call_stack' = Pop
    /\ extract_pc' = "return"
    /\ UNCHANGED <<content_in, optVars, parseVars, trackVars, watchVars, sessVars, formatVars>>

\* the value arrives in the caller's dict branch: "if text: return text" in
\* the first loop (else the loop goes on), "return ..." in the special case
ReturnToCaller ==
    /\ extract_pc = "return"
    /\ call_stack # <<>>
    /\ IF Top.pos >= 6 \/ Truthy(extracted)
       THEN call_stack' = Pop /\ extract_pc' = "return"
       ELSE call_stack' = AtPos(Top.pos + 1) /\ extract_pc' = "call"
    /\ UNCHANGED <<content_in, extracted, optVars, parseVars, trackVars, watchVars, sessVars,
                   formatVars>>

\* the outermost call returned
ReturnText ==
    /\ extract_pc = "return"
    /\ call_stack = <<>>
    /\ extract_pc' = "done"
    /\ UNCHANGED <<content_in, extracted, call_stack, optVars, parseVars, trackVars,
                   watchVars, sessVars, formatVars>>

NextExtract ==
    \/ ExtractText
    \/ ReturnNonDict
    \/ CallOnField
    \/ SkipField
    \/ ReturnDumps
    \/ ReturnToCaller
    \/ ReturnText

SpecExtract == InitExtract /\ [][NextExtract]_vars

(***************************************************************************)
(* ToolInvocationTracker                                                   *)
(***************************************************************************)
\* the tool_use items of an entry's message content, in order
ToolUseItems(entry) ==
    LET message == Get(entry, "message")
        content == IF message.tag = "obj" THEN Get(message.obj, "content") ELSE JNull
        items == IF content.tag = "list" THEN content.list ELSE <<>>
    IN  SelectSeq(items, LAMBDA item :
            item.tag = "obj" /\ Get(item.obj, "type") = JStr("tool_use"))

\* the record stored for a tool_use item: name and input, and for a Task
\* invocation the delegate type and the description taken from its input
InvocationRecord(item) ==
    LET name == Get(item.obj, "name")
        input == Get(item.obj, "input")
        base == [name |-> name, input |-> input]
    IN  IF name = JStr("Task") /\ input.tag = "obj"
        THEN [subagent_type |-> Get(input.obj, "subagent_type"),
              description |-> Get(input.obj, "description")] @@ base
        ELSE base

RECURSIVE RecordItems_keyedByName(_, _)
\* recording that files each invocation under its tool name instead of its id
RecordItems_keyedByName(table, items) ==
    IF items = <<>> THEN table
    ELSE LET item == Head(items)
             name == Get(item.obj, "name")
         IN  RecordItems_keyedByName(
                 IF name.tag = "str"
                 THEN (name.str :> InvocationRecord(item)) @@ table
                 ELSE table,
                 Tail(items))

RECURSIVE RecordItems(_, _)
\* store {id -> record} for each tool_use item, a later item replacing an
\* earlier one of the same id
RecordItems(table, items) ==
    IF items = <<>> THEN table
    ELSE LET item == Head(items)
             id == Get(item.obj, "id")
         IN  RecordItems(
                 IF id.tag = "str"
                 THEN (id.str :> InvocationRecord(item)) @@ table
                 ELSE table,
                 Tail(items))

\* recordInvocation(entry) / ToolInvocationTracker.track_tool_use
track_tool_use(table, entry) == RecordItems(table, ToolUseItems(entry))

\* ToolInvocationTracker.get_tool_info: the record, or None for an unseen id
get_tool_info(table, id) ==
    IF id \in DOMAIN table THEN <<table[id]>> ELSE <<>>

\* the id the first tool_result item of the entry refers to, if any
ToolResultId(entry) ==
    LET message == Get(entry, "message")
        content == IF message.tag = "obj" THEN Get(message.obj, "content") ELSE JNull
        items == IF content.tag = "list" THEN content.list ELSE <<>>
        results == SelectSeq(items, LAMBDA item :
                      /\ item.tag = "obj"
                      /\ Get(item.obj, "type") = JStr("tool_result")
                      /\ Get(item.obj, "tool_use_id").tag = "str")
    IN  IF results = <<>> THEN <<>> ELSE <<Get(results[1].obj, "tool_use_id").str>>

\* resolveResult(entry) / ToolInvocationTracker.get_task_info_for_entry:
\* <<record>> when the entry's tool result refers to a recorded id, <<>> (None)
\* otherwise
resolveResult(table, entry) ==
    LET id == ToolResultId(entry)
    IN  IF id = <<>> THEN <<>> ELSE get_tool_info(table, id[1])

\* tool-call ids: two that invocations use, one that no invocation ever has
UsedToolIds == {"tool-123", "task-456"}

ToolIds == UsedToolIds \cup {"tool-999"}

ToolInputs == {JObj([command |-> JStr("ls -la")]),
               JObj([subagent_type |-> JStr("hack-spotter"),
                     description |-> JStr("Security audit")])}

ToolUseSamples ==
    {JObj([type |-> JStr("tool_use"), id |-> JStr(id), name |-> JStr(n), input |-> i]) :
        id \in UsedToolIds, n \in {"Bash", "Task"}, i \in ToolInputs}

\* assistant entries carrying one tool_use item, possibly after a text item
AssistantEntries ==
    {[type |-> JStr("assistant"), message |-> JObj([content |-> JList(<<item>>)])] :
        item \in ToolUseSamples}
    \cup
    {[type |-> JStr("assistant"),
      message |-> JObj([content |-> JList(<<JObj([type |-> JStr("text"),
                                                  text |-> JStr("Running")]), item>>)])] :
        item \in ToolUseSamples}

\* user entries carrying a tool_result item, and one carrying none
ResultEntries ==
    {[type |-> JStr("user"),
      message |-> JObj([content |-> JList(<<JObj([type |-> JStr("tool_result"),
                                                  tool_use_id |-> JStr(id),
                                                  content |-> JStr("output")])>>)])] :
        id \in ToolIds}
    \cup {[type |-> JStr("user"), message |-> JObj([content |-> JStr("Hello")])]}

InitTracker ==
    /\ opt_pc = "start"
    /\ options_string = <<>>
    /\ show_options = AllFalse
    /\ status_printed = <<>>
    /\ exit_status = -1
    /\ rendered_count = 0
    /\ trunc_query = [text_type |-> "none", truncate |-> TRUE, max_length |-> 0]
    /\ ParseIdle
    /\ TrackerEmpty
    /\ ExtractIdle
    /\ SessionIdle
    /\ FormatIdle
    /\ WatchIdle

\* tracker.track_tool_use(entry) for an assistant entry of the session
TrackToolUse ==
    /\ Len(track_log) < MaxTracked
    /\ \E entry \in AssistantEntries :
         /\ tool_invocations' = track_tool_use(tool_invocations, entry)
         /\ track_log' = track_log \o ToolUseItems(entry)
    /\ UNCHANGED <<resolved, optVars, parseVars, watchVars, extractVars,
                   sessVars, formatVars>>

\* tracker.get_task_info_for_entry(entry) for a later entry of the session
ResolveResult ==
    /\ \E entry \in ResultEntries :
         resolved' = [asked |-> TRUE, entry |-> entry, after |-> Len(track_log),
                      result |-> resolveResult(tool_invocations, entry)]
    /\ UNCHANGED <<tool_invocations, track_log, optVars, parseVars, watchVars, extractVars,
                   sessVars, formatVars>>

NextTracker == TrackToolUse \/ ResolveResult

SpecTracker == InitTracker /\ [][NextTracker]_vars

(***************************************************************************)
(* main(): build the options, then render                                  *)
(***************************************************************************)
\* characters option strings are drawn from: flag letters in both cases,
\* the two meta characters, '?', and characters that are no flag
OptChars == {"a", "A", "q", "w", "W", "s", "m", "h", "H", "o", "O", "t", "u", "?", "z", "Z", "1"}

OptStrings == SeqsUpTo(OptChars, MaxOptLen)

InitOptions ==
    /\ opt_pc = "start"
    /\ options_string = <<>>
    /\ show_options = AllFalse
    /\ status_printed = <<>>
    /\ exit_status = -1
    /\ rendered_count = 0
    /\ trunc_query = [text_type |-> "none", truncate |-> TRUE, max_length |-> 0]
    /\ ParseIdle
    /\ TrackerEmpty
    /\ ExtractIdle
    /\ SessionIdle
    /\ FormatIdle
    /\ WatchIdle

\* main(): show_options = ShowOptions(args.show); sys.exit(0) inside ends main
CreateShowOptions ==
    /\ opt_pc = "start"
    /\ \E s \in OptStrings :
         LET r == ShowOptions(s) IN
         /\ options_string' = s
         /\ show_options' = r.opts
         /\ status_printed' = r.printed
         /\ exit_status' = r.status
         /\ opt_pc' = IF r.exited THEN "exited" ELSE "ready"
    /\ UNCHANGED <<rendered_count, trunc_query, parseVars, trackVars, watchVars, extractVars,
                   sessVars, formatVars>>

\* main(): one iteration of "for entry in sessions: format_conversation_entry(...)"
RenderOne ==
    /\ opt_pc = "ready"
    /\ rendered_count < MaxRendered
    /\ rendered_count' = rendered_count + 1
    /\ UNCHANGED <<opt_pc, options_string, show_options, status_printed, exit_status,
                   trunc_query, parseVars, trackVars, watchVars, extractVars,
                   sessVars, formatVars>>

\* a formatter asks the options for a category's cap
QueryTruncation ==
    /\ opt_pc = "ready"
    /\ \E tt \in TextTypes :
         trunc_query' = [text_type |-> tt,
                         truncate |-> should_truncate(show_options, tt),
                         max_length |-> get_max_length(show_options, tt)]
    /\ UNCHANGED <<opt_pc, options_string, show_options, status_printed, exit_status,
                   rendered_count, parseVars, trackVars, watchVars, extractVars,
                   sessVars, formatVars>>

NextOptions == CreateShowOptions \/ RenderOne \/ QueryTruncation

SpecOptions == InitOptions /\ [][NextOptions]_vars

(***************************************************************************)
(* watch_session_file (watcher.py): a producer appends lines to the        *)
(* session file while the watcher polls it.                                *)
(***************************************************************************)
\* lines a session file holds, without their newline
BlankLine == ""

MalformedLine == "{\"type\": \"user\", \"mess"

UserHello == "{\"type\": \"user\", \"message\": {\"role\": \"user\", \"content\": \"hello\"}}"

UserHelloPadded == UserHello \o "  "

AssistantTool == "{\"type\": \"assistant\", \"uuid\": \"u-1\", \"sessionId\": \"s-1\", \"message\": {\"role\": \"assistant\", \"content\": [{\"type\": \"text\", \"text\": \"running\"}, {\"type\": \"tool_use\", \"id\": \"toolu_1\", \"name\": \"Bash\", \"input\": {\"command\": \"ls\"}}]}}"

SystemNote == "{\"type\": \"system\", \"content\": \"Build Error\"}"

\* a line that is a JSON number
NumberLine == "5"

\* stands for a line of brackets nested deeper than the interpreter's recursion
\* limit, '[' * 100000 + ']' * 100000: valid JSON that json.loads gives up on
DeepLine == "[[[[[[[[[[ ... ]]]]]]]]]]"

\* stands for a line holding bytes that are not UTF-8 (b'\xff\xfe')
UndecodableLine == "\\xff\\xfe"

LineTexts == {BlankLine, MalformedLine, UserHello, UserHelloPadded, AssistantTool,
              SystemNote}

\* line.strip()
strip_line(line) == IF line = UserHelloPadded THEN UserHello ELSE line

\* bytes a line takes in the file: its text and the newline
LineBytes(line) == Len(line) + 1

RECURSIVE st_size(_)
\* filepath.stat().st_size
st_size(lines) ==
    IF lines = <<>> THEN 0 ELSE LineBytes(Head(lines)) + st_size(Tail(lines))

\* json.loads(line): the value, or ok = FALSE and the class of the exception
\* raised
json_loads(line) ==
    CASE line = UserHello ->
            [ok |-> TRUE, exc |-> "",
             value |-> JObj("type" :> JStr("user")
                            @@ "message" :> JObj("role" :> JStr("user")
                                                 @@ "content" :> JStr("hello")))]
      [] line = AssistantTool ->
            [ok |-> TRUE, exc |-> "",
             value |-> JObj("type" :> JStr("assistant")
                            @@ "uuid" :> JStr("u-1")
                            @@ "sessionId" :> JStr("s-1")
                            @@ "message" :> JObj(
                                 "role" :> JStr("assistant")
                                 @@ "content" :> JList(<<
                                      JObj("type" :> JStr("text")
                                           @@ "text" :> JStr("running")),
                                      JObj("type" :> JStr("tool_use")
                                           @@ "id" :> JStr("toolu_1")
                                           @@ "name" :> JStr("Bash")
                                           @@ "input" :> JObj("command" :> JStr("ls")))>>)))]
      [] line = SystemNote ->
            [ok |-> TRUE, exc |-> "",
             value |-> JObj("type" :> JStr("system") @@ "content" :> JStr("Build Error"))]
      [] line = NumberLine -> [ok |-> TRUE, exc |-> "", value |-> JNum("5")]
      [] line = DeepLine -> [ok |-> FALSE, exc |-> "RecursionError", value |-> JNull]
      [] OTHER -> [ok |-> FALSE, exc |-> "JSONDecodeError", value |-> JNull]

\* the try block of the loop body: json.loads, parse_entry,
\* format_conversation_entry
Rendering(line, o) ==
    LET loaded == json_loads(line)
    IN  IF ~loaded.ok THEN Raises(loaded.exc)
        ELSE format_conversation_entry(parse_entry(loaded.value), o)

\* "if entry_key not in seen_entries"
IsNewEntry_always(entry_key, seen) == TRUE

IsNewEntry(entry_key, seen) == entry_key \notin seen

\* "if formatted: print(formatted)"
ShouldPrint_never(formatted) == FALSE

ShouldPrint(formatted) == formatted # <<>>

\* option strings the watcher is started with
WatchOptStrings == {<<>>, <<"a">>}

\* keys of the keyboard: ESC (ESC_KEY_CODE) and another key
KeyTexts == {"ESC", "a"}

\* watch_session_file is called; what the file holds, the terminal and what
\* the user and the producer are going to do are left to the specification
WatchCalled ==
    /\ opt_pc = "ready"
    /\ options_string \in WatchOptStrings
    /\ show_options = ShowOptions(options_string).opts
    /\ status_printed = <<>>
    /\ exit_status = -1
    /\ rendered_count = 0
    /\ trunc_query = [text_type |-> "none", truncate |-> TRUE, max_length |-> 0]
    /\ ParseIdle
    /\ TrackerEmpty
    /\ ExtractIdle
    /\ SessionIdle
    /\ FormatIdle
    /\ watch_pc = "setup"
    /\ last_size = 0
    /\ current_size = 0
    /\ line_num = 0
    /\ seen_entries = {}
    /\ stdout = <<>>
    /\ poll_mark = 0
    /\ batch_from = 0
    /\ end_len = 0
    /\ loads_calls = <<>>
    /\ stdin_fd = <<>>
    /\ stdin_buffer = <<>>
    /\ old_settings = "None"
    /\ tty_mode = "cooked"
    /\ tcsetattr_calls = <<>>
    /\ file_gone = FALSE

\* a session file that is empty at first and only grows, watched where no
\* key can be read (HAS_TERMIOS is False): only an interrupt ends the loop
InitWatch ==
    /\ WatchCalled
    /\ file = <<>>
    /\ keys_to_come = <<>>
    /\ has_termios = FALSE
    /\ stdin_isatty = FALSE
    /\ producer_lines = LineTexts
    /\ truncations_left = 0

\* "old_settings = termios.tcgetattr(sys.stdin); tty.setcbreak(...)", which
\* raise termios.error when standard input is no terminal
SetupTerminal ==
    /\ watch_pc = "setup"
    /\ watch_pc' = "check_esc"
    /\ IF has_termios /\ stdin_isatty
       THEN old_settings' = "saved" /\ tty_mode' = "cbreak"
       ELSE old_settings' = "None" /\ tty_mode' = tty_mode
    /\ UNCHANGED <<loads_calls, file, last_size, current_size, line_num, seen_entries, stdout,
                   poll_mark, batch_from, end_len, keys_to_come, stdin_fd,
                   stdin_buffer, has_termios, stdin_isatty, tcsetattr_calls,
                   prodVars, optVars, parseVars, trackVars, extractVars, sessVars,
                   formatVars>>

Watching == watch_pc \in {"check_esc", "stat", "read", "sleep"}

\* the producer appends one complete line to the session file
AppendLine ==
    /\ Watching
    /\ Len(file) < MaxLines
    /\ ~file_gone
    /\ \E line \in producer_lines : file' = Append(file, line)
    /\ UNCHANGED <<loads_calls, watch_pc, last_size, current_size, line_num, seen_entries, stdout,
                   poll_mark, batch_from, end_len, optVars, parseVars, trackVars,
                   extractVars, sessVars, formatVars, termVars, prodVars>>

\* the user presses a key; in cbreak mode the terminal delivers it at once
PressKey ==
    /\ Watching
    /\ tty_mode = "cbreak"
    /\ keys_to_come # <<>>
    /\ stdin_fd' = Append(stdin_fd, Head(keys_to_come))
    /\ keys_to_come' = Tail(keys_to_come)
    /\ UNCHANGED <<loads_calls, file, watch_pc, last_size, current_size, line_num, seen_entries,
                   stdout, poll_mark, batch_from, end_len, stdin_buffer, has_termios,
                   stdin_isatty, old_settings, tty_mode, tcsetattr_calls, prodVars,
                   optVars, parseVars, trackVars, extractVars, sessVars, formatVars>>

\* "sys.stdin in select.select([sys.stdin], [], [], 0)[0]": select looks at
\* the file descriptor, not at what sys.stdin holds in its buffer
StdinReadable == has_termios /\ stdin_fd # <<>>

\* what sys.stdin holds once read(1) has filled its empty buffer: read takes
\* all that the descriptor has
Filled == IF stdin_buffer = <<>> THEN stdin_fd ELSE stdin_buffer

\* sys.stdin.read(1)
ReadChar ==
    /\ stdin_buffer' = Tail(Filled)
    /\ stdin_fd' = IF stdin_buffer = <<>> THEN <<>> ELSE stdin_fd

\* check_for_esc(): whether an ESC key is read
check_for_esc == StdinReadable /\ Head(Filled) = "ESC"

\* check_for_esc() returned True: break
EscPressed ==
    /\ watch_pc = "check_esc"
    /\ check_for_esc
    /\ ReadChar
    /\ watch_pc' = "stopped"
    /\ UNCHANGED <<loads_calls, file, last_size, current_size, line_num, seen_entries, stdout,
                   poll_mark, batch_from, end_len, keys_to_come, has_termios,
                   stdin_isatty, old_settings, tty_mode, tcsetattr_calls, prodVars,
                   optVars, parseVars, trackVars, extractVars, sessVars, formatVars>>

\* check_for_esc() returned False: nothing to read, or another key was read
NoEsc ==
    /\ watch_pc = "check_esc"
    /\ ~check_for_esc
    /\ IF StdinReadable THEN ReadChar ELSE UNCHANGED <<stdin_fd, stdin_buffer>>
    /\ watch_pc' = "stat"
    /\ UNCHANGED <<loads_calls, file, last_size, current_size, line_num, seen_entries, stdout,
                   poll_mark, batch_from, end_len, keys_to_come, has_termios,
                   stdin_isatty, old_settings, tty_mode, tcsetattr_calls, prodVars,
                   optVars, parseVars, trackVars, extractVars, sessVars, formatVars>>

\* a tick that reads the file whenever its size differs from last_size
Stat_onAnyChange ==
    /\ watch_pc = "stat"
    /\ ~file_gone
    /\ current_size' = st_size(file)
    /\ poll_mark' = Len(stdout)
    /\ IF st_size(file) # last_size
       THEN /\ watch_pc' = "read"
            /\ line_num' = 0
            /\ end_len' = end_len
       ELSE /\ watch_pc' = "sleep"
            /\ line_num' = line_num
            /\ end_len' = Len(file)
    /\ UNCHANGED <<loads_calls, file, last_size, seen_entries, stdout, batch_from,
                   optVars, parseVars, trackVars,
                   extractVars, sessVars, formatVars, termVars, prodVars>>

\* current_size = filepath.stat().st_size; if current_size > last_size: open
Stat ==
    /\ watch_pc = "stat"
    /\ ~file_gone
    /\ current_size' = st_size(file)
    /\ poll_mark' = Len(stdout)
    /\ IF st_size(file) > last_size
       THEN /\ watch_pc' = "read"
            /\ line_num' = 0
            /\ end_len' = end_len
       ELSE /\ watch_pc' = "sleep"
            /\ line_num' = line_num
            /\ end_len' = Len(file)
    /\ UNCHANGED <<loads_calls, file, last_size, seen_entries, stdout, batch_from,
                   optVars, parseVars, trackVars,
                   extractVars, sessVars, formatVars, termVars, prodVars>>

\* filepath.stat() raises FileNotFoundError, which no except clause of the
\* loop catches
StatMissing ==
    /\ watch_pc = "stat"
    /\ file_gone
    /\ watch_pc' = "crashed"
    /\ UNCHANGED <<loads_calls, file, last_size, current_size, line_num, seen_entries, stdout,
                   poll_mark, batch_from, end_len, optVars, parseVars, trackVars,
                   extractVars, sessVars, formatVars, termVars, prodVars>>

\* entry_key = line.strip() of the line the loop is about to read
NextEntryKey == strip_line(file[line_num + 1])

\* a loop that adds the key at the end of the try block, so that a line
\* whose parsing or rendering raised is not added
SeenAfterLine_atEndOfTry ==
    IF \/ NextEntryKey = ""
       \/ ~IsNewEntry(NextEntryKey, seen_entries)
       \/ Rendering(NextEntryKey, show_options).raised # ""
    THEN seen_entries
    ELSE seen_entries \cup {NextEntryKey}

\* "if entry_key not in seen_entries: seen_entries.add(entry_key)", for a
\* line that is not blank
SeenAfterLine ==
    IF NextEntryKey = "" \/ ~IsNewEntry(NextEntryKey, seen_entries)
    THEN seen_entries
    ELSE seen_entries \cup {NextEntryKey}

\* "raw_entry = json.loads(line)", the first statement of the try block,
\* for a new line
CallsAfterLine ==
    IF NextEntryKey = "" \/ ~IsNewEntry(NextEntryKey, seen_entries)
    THEN loads_calls
    ELSE Append(loads_calls, NextEntryKey)

\* a loop that prints a line only when the line lies within the size the
\* tick got from stat()
StdoutAfterLine_withinSize ==
    LET result == Rendering(NextEntryKey, show_options)
    IN  IF NextEntryKey = "" \/ ~IsNewEntry(NextEntryKey, seen_entries)
        THEN stdout
        ELSE IF /\ result.raised = ""
                /\ ShouldPrint(result.out)
                /\ st_size(SubSeq(file, 1, line_num + 1)) <= current_size
             THEN Append(stdout, [line_num |-> line_num + 1,
                                  entry_key |-> NextEntryKey,
                                  formatted |-> result.out])
             ELSE stdout

\* "if formatted: print(formatted)", for a new line whose try block raised
\* nothing
StdoutAfterLine ==
    LET result == Rendering(NextEntryKey, show_options)
    IN  IF NextEntryKey = "" \/ ~IsNewEntry(NextEntryKey, seen_entries)
        THEN stdout
        ELSE IF result.raised = "" /\ ShouldPrint(result.out)
             THEN Append(stdout, [line_num |-> line_num + 1,
                                  entry_key |-> NextEntryKey,
                                  formatted |-> result.out])
             ELSE stdout

\* one pass of "for line_num, line in enumerate(f, 1)" that leaves the
\* except clauses, if any, normally
ReadLine ==
    /\ watch_pc = "read"
    /\ line_num < Len(file)
    /\ line_num' = line_num + 1
    /\ seen_entries' = SeenAfterLine
    /\ stdout' = StdoutAfterLine
    /\ loads_calls' = CallsAfterLine
    /\ UNCHANGED <<file, watch_pc, last_size, current_size, poll_mark, batch_from,
                   end_len, optVars, parseVars, trackVars,
                   extractVars, sessVars, formatVars, termVars, prodVars>>

\* a pass whose try block raised TypeError or AttributeError: the except
\* clause reads show_options.debug, which the ShowOptions of claudelog.py
\* does not define; the AttributeError leaves the loop and the function
ReadLineCrash ==
    /\ watch_pc = "read"
    /\ line_num < Len(file)
    /\ LET entry_key == strip_line(file[line_num + 1])
       IN  /\ entry_key # ""
           /\ IsNewEntry(entry_key, seen_entries)
           /\ Rendering(entry_key, show_options).raised \in {"TypeError", "AttributeError"}
           /\ seen_entries' = seen_entries \cup {entry_key}
           /\ loads_calls' = Append(loads_calls, entry_key)
    /\ line_num' = line_num + 1
    /\ watch_pc' = "crashed"
    /\ UNCHANGED <<file, last_size, current_size, stdout, poll_mark, batch_from,
                   end_len, optVars, parseVars, trackVars,
                   extractVars, sessVars, formatVars, termVars, prodVars>>

\* the for loop reaches the end of the file: last_size = current_size
ReadEOF ==
    /\ watch_pc = "read"
    /\ line_num >= Len(file)
    /\ last_size' = current_size
    /\ end_len' = Len(file)
    /\ watch_pc' = "sleep"
    /\ UNCHANGED <<loads_calls, file, current_size, line_num, seen_entries, stdout, poll_mark,
                   batch_from, optVars, parseVars, trackVars,
                   extractVars, sessVars, formatVars, termVars, prodVars>>

\* time.sleep(WATCH_POLL_INTERVAL) returns: the next tick begins
Sleep ==
    /\ watch_pc = "sleep"
    /\ watch_pc' = "check_esc"
    /\ batch_from' = end_len
    /\ UNCHANGED <<loads_calls, file, last_size, current_size, line_num, seen_entries, stdout,
                   poll_mark, end_len, optVars, parseVars, trackVars,
                   extractVars, sessVars, formatVars, termVars, prodVars>>

\* except KeyboardInterrupt: break
Interrupt ==
    /\ Watching
    /\ watch_pc' = "stopped"
    /\ UNCHANGED <<loads_calls, file, last_size, current_size, line_num, seen_entries, stdout,
                   poll_mark, batch_from, end_len, optVars, parseVars, trackVars,
                   extractVars, sessVars, formatVars, termVars, prodVars>>

\* the restore as a last statement of the function in place of a finally
\* clause: an exception that leaves the loop passes it by
Finally_afterLoop ==
    /\ watch_pc \in {"stopped", "crashed"}
    /\ watch_pc' = IF watch_pc = "stopped" THEN "returned" ELSE "raised"
    /\ IF has_termios /\ old_settings = "saved" /\ watch_pc = "stopped"
       THEN \E outcome \in {"ok", "termios.error"} :
                /\ tcsetattr_calls' = Append(tcsetattr_calls, outcome)
                /\ tty_mode' = IF outcome = "ok" THEN "cooked" ELSE tty_mode
       ELSE UNCHANGED <<tcsetattr_calls, tty_mode>>
    /\ UNCHANGED <<loads_calls, file, last_size, current_size, line_num, seen_entries, stdout,
                   poll_mark, batch_from, end_len, keys_to_come, stdin_fd,
                   stdin_buffer, has_termios, stdin_isatty, old_settings, prodVars,
                   optVars, parseVars, trackVars, extractVars, sessVars, formatVars>>

\* the finally clause: "if HAS_TERMIOS and old_settings: termios.tcsetattr(...)",
\* a termios.error of which is ignored; then the function returns, or the
\* exception that left the loop goes on to the caller
Finally ==
    /\ watch_pc \in {"stopped", "crashed"}
    /\ watch_pc' = IF watch_pc = "stopped" THEN "returned" ELSE "raised"
    /\ IF has_termios /\ old_settings = "saved"
       THEN \E outcome \in {"ok", "termios.error"} :
                /\ tcsetattr_calls' = Append(tcsetattr_calls, outcome)
                /\ tty_mode' = IF outcome = "ok" THEN "cooked" ELSE tty_mode
       ELSE UNCHANGED <<tcsetattr_calls, tty_mode>>
    /\ UNCHANGED <<loads_calls, file, last_size, current_size, line_num, seen_entries, stdout,
                   poll_mark, batch_from, end_len, keys_to_come, stdin_fd,
                   stdin_buffer, has_termios, stdin_isatty, old_settings, prodVars,
                   optVars, parseVars, trackVars, extractVars, sessVars, formatVars>>

\* the session file is emptied (truncated, or replaced by a new file) while
\* the watcher is not reading it
Truncate ==
    /\ watch_pc \in {"check_esc", "stat", "sleep"}
    /\ ~file_gone
    /\ truncations_left > 0
    /\ file # <<>>
    /\ file' = <<>>
    /\ truncations_left' = truncations_left - 1
    /\ UNCHANGED <<loads_calls, watch_pc, last_size, current_size, line_num, seen_entries, stdout,
                   poll_mark, batch_from, end_len, producer_lines, file_gone,
                   termVars, optVars, parseVars, trackVars, extractVars, sessVars,
                   formatVars>>

\* the session file is removed while the watcher is not reading it
RemoveFile ==
    /\ watch_pc \in {"check_esc", "stat", "sleep"}
    /\ ~file_gone
    /\ file_gone' = TRUE
    /\ file' = <<>>
    /\ UNCHANGED <<loads_calls, watch_pc, last_size, current_size, line_num, seen_entries, stdout,
                   poll_mark, batch_from, end_len, producer_lines, truncations_left,
                   termVars, optVars, parseVars, trackVars, extractVars, sessVars,
                   formatVars>>

NextWatch ==
    \/ SetupTerminal
    \/ AppendLine
    \/ NoEsc
    \/ Stat
    \/ ReadLine
    \/ ReadLineCrash
    \/ ReadEOF
    \/ Sleep
    \/ Interrupt
    \/ Finally

SpecWatch == InitWatch /\ [][NextWatch]_vars

(***************************************************************************)
(* watch_session_file and its terminal: a file that no producer writes to, *)
(* a user who presses keys, and every way out of the function.             *)
(***************************************************************************)
RECURSIVE KeySeqs(_)
\* the sequences of at most n keys
KeySeqs(n) ==
    IF n = 0 THEN {<<>>}
    ELSE KeySeqs(n - 1)
         \cup {Append(keys, key) : keys \in {k \in KeySeqs(n - 1) : Len(k) = n - 1},
                                   key \in KeyTexts}

\* what the watched file holds when the watcher starts
CancelFiles == {<<>>, <<UserHello>>, <<UserHello, AssistantTool>>}

InitCancel ==
    /\ WatchCalled
    /\ file \in CancelFiles
    /\ keys_to_come \in KeySeqs(MaxKeys)
    /\ has_termios \in BOOLEAN
    /\ stdin_isatty \in BOOLEAN
    /\ producer_lines = {}
    /\ truncations_left = 0

NextCancel ==
    \/ SetupTerminal
    \/ PressKey
    \/ EscPressed
    \/ NoEsc
    \/ Stat
    \/ StatMissing
    \/ ReadLine
    \/ ReadLineCrash
    \/ ReadEOF
    \/ Sleep
    \/ Interrupt
    \/ Finally
    \/ RemoveFile

\* the for loop goes on to the next line of the file, whatever the pass
\* over that line does
ReadsNextLine ==
    /\ watch_pc = "read"
    /\ line_num < Len(file)
    /\ line_num' = line_num + 1
    /\ watch_pc' \in {"read", "crashed"}

\* the steps watch_session_file takes by itself
WatcherStep ==
    \/ SetupTerminal
    \/ EscPressed
    \/ NoEsc
    \/ Stat
    \/ StatMissing
    \/ ReadsNextLine
    \/ ReadEOF
    \/ Sleep
    \/ Finally

\* where watch_session_file is: each of its steps changes this
position == <<watch_pc, line_num>>

\* the process is scheduled: a call returns, time.sleep ends
SpecCancel == InitCancel /\ [][NextCancel]_vars /\ WF_position(WatcherStep)

(***************************************************************************)
(* watch_session_file on a file that its producer empties and writes anew, *)
(* watched where no key can be read.                                       *)
(***************************************************************************)
\* line texts the producer writes, before and after it empties the file
RotateLines == {UserHello, AssistantTool}

InitRotate ==
    /\ WatchCalled
    /\ file = <<>>
    /\ keys_to_come = <<>>
    /\ has_termios = FALSE
    /\ stdin_isatty = FALSE
    /\ producer_lines = RotateLines
    /\ truncations_left = MaxTruncations

NextRotate ==
    \/ SetupTerminal
    \/ AppendLine
    \/ Truncate
    \/ NoEsc
    \/ Stat
    \/ ReadLine
    \/ ReadLineCrash
    \/ ReadEOF
    \/ Sleep
    \/ Interrupt
    \/ Finally

SpecRotate == InitRotate /\ [][NextRotate]_vars

(***************************************************************************)
(* parse_session_file (session.py): the path check, the size check and the *)
(* loop over the lines of the file.                                        *)
(***************************************************************************)
\* constants.BYTES_PER_KB, BYTES_PER_MB, MAX_FILE_SIZE_MB, MAX_FILE_SIZE
BYTES_PER_KB == 1024

BYTES_PER_MB == BYTES_PER_KB * 1024

MAX_FILE_SIZE_MB == 100

MAX_FILE_SIZE == MAX_FILE_SIZE_MB * BYTES_PER_MB

\* Path.home() / CLAUDE_PROJECTS_DIR; a path is the sequence of its parts
home_sessions == <<"home", ".claude", "projects">>

SessionJsonl == home_sessions \o <<"p", "s.jsonl">>

Passwd == <<"etc", "passwd">>

\* the symbolic links on disk and what they point to
Symlinks ==
    (home_sessions \o <<"p", "evil_link">>) :> Passwd
    @@ <<"tmp", "evil_link">> :> Passwd
    @@ <<"tmp", "good_link">> :> SessionJsonl

RECURSIVE Walk(_, _, _)
\* the path reached by walking the parts of a path from the root: ".." goes
\* up, a part that is a link goes to what the link points to
Walk(done, rest, links) ==
    IF rest = <<>> THEN done
    ELSE IF Head(rest) = ".."
         THEN Walk(SubSeq(done, 1, Len(done) - 1), Tail(rest), links)
    ELSE LET next == Append(done, Head(rest))
         IN  IF next \in DOMAIN links
             THEN Walk(links[next], Tail(rest), links)
             ELSE Walk(next, Tail(rest), links)

\* the file the operating system reaches when it is given the path
Target(path) == Walk(<<>>, path, Symlinks)

\* Path(filepath).resolve()
resolve_nofollow(path) == Walk(<<>>, path, <<>>)

resolve(path) == Walk(<<>>, path, Symlinks)

\* filepath.parents
parents(path) == {SubSeq(path, 1, k) : k \in 0..(Len(path) - 1)}

\* filepath.parent
parent(path) == SubSeq(path, 1, Len(path) - 1)

\* "home_sessions in filepath.parents or filepath.parent == home_sessions"
InSessionsDir(path) == home_sessions \in parents(path) \/ parent(path) = home_sessions

\* paths parse_session_file is called with
SessionPaths ==
    {SessionJsonl,
     home_sessions \o <<"s.jsonl">>,
     home_sessions \o <<"p", "missing.jsonl">>,
     home_sessions \o <<"p", "..", "..", "..", "..", "etc", "passwd">>,
     home_sessions \o <<"p", "evil_link">>,
     home_sessions,
     Passwd,
     <<"tmp", "evil_link">>,
     <<"tmp", "good_link">>,
     <<"home", ".claude", "projects-evil", "s.jsonl">>}

\* the files that exist on disk
ExistingFiles ==
    {SessionJsonl, home_sessions \o <<"s.jsonl">>, Passwd,
     <<"home", ".claude", "projects-evil", "s.jsonl">>}

PasswdFile == [lines |-> <<"root:x:0:0:root:/root:/bin/sh">>, pad |-> 0]

\* what a file on disk holds
FileAt(target) == IF target = Passwd THEN PasswdFile ELSE session_file

\* filepath.stat().st_size of a file
FileSize(f) == st_size(f.lines) + f.pad

\* lines of a session file
SessionLineTexts ==
    {BlankLine, MalformedLine, UserHello, NumberLine, DeepLine, UndecodableLine}

\* the file is small, exactly at the limit, or one byte over it
Pads(lines) == {0, MAX_FILE_SIZE - st_size(lines), MAX_FILE_SIZE - st_size(lines) + 1}

SessionFiles ==
    UNION {{[lines |-> l, pad |-> pd] : pd \in Pads(l)} :
           l \in SeqsUpTo(SessionLineTexts, MaxFileLines)}

\* what AdaptiveParser.parse_entry is patched to raise
ParsePatches ==
    {NoPatch,
     Exc("ValueError", "Sensitive error details"),
     Exc("KeyError", "Sensitive error details"),
     Exc("RuntimeError", "Sensitive error details")}

\* "except (ValueError, TypeError, KeyError, AttributeError) as e"
CaughtParserErrors == {"ValueError", "TypeError", "KeyError", "AttributeError"}

\* a line printed to sys.stderr: which message, the line number in it and the
\* text put into it
Report(kind, line, text) == [kind |-> kind, line |-> line, text |-> text]

\* the exception parser.parse_entry(raw_data) raises, NoException if it returns
ParseEntryException(raw) ==
    IF parse_patch # NoPatch THEN parse_patch
    ELSE IF parse_entry_raises(raw) THEN Exc(_extract_message(raw.obj).str, "")
    ELSE NoException

\* type(e).__name__
ErrorMarker_str(e) == e.msg

ErrorMarker(e) == e.class

\* raw_data["_parse_error"] = type(e).__name__
Tagged(raw, e) == ("_parse_error" :> JStr(ErrorMarker(e))) @@ raw.obj

\* the exception that leaves the try block of the loop body for a line,
\* NoException if the line is dealt with inside it
Escaping(line) ==
    LET loaded == json_loads(line)
        raised == ParseEntryException(loaded.value)
    IN  IF ~loaded.ok
        THEN IF loaded.exc = "JSONDecodeError" THEN NoException
             ELSE Exc(loaded.exc, "maximum recursion depth exceeded")
        ELSE IF raised = NoException THEN NoException
        ELSE IF raised.class \notin CaughtParserErrors THEN raised
        ELSE IF loaded.value.tag # "obj"
             THEN Exc("TypeError", "object does not support item assignment")
        ELSE NoException

\* "if file_size > MAX_FILE_SIZE"
TooLarge_never(file_size) == FALSE

TooLarge(file_size) == file_size > MAX_FILE_SIZE

InitSession ==
    /\ opt_pc = "start"
    /\ options_string = <<>>
    /\ show_options = AllFalse
    /\ status_printed = <<>>
    /\ exit_status = -1
    /\ rendered_count = 0
    /\ trunc_query = [text_type |-> "none", truncate |-> TRUE, max_length |-> 0]
    /\ ParseIdle
    /\ TrackerEmpty
    /\ WatchIdle
    /\ ExtractIdle
    /\ FormatIdle
    /\ filepath_arg \in SessionPaths
    /\ session_file \in SessionFiles
    /\ parse_patch \in ParsePatches
    /\ filepath = <<>>
    /\ session_pc = "start"
    /\ sessions = <<>>
    /\ stderr = <<>>
    /\ fs_calls = <<>>
    /\ session_line = 0

\* the file open(filepath) gives
Opened == FileAt(Target(filepath))

\* the line the loop is at, stripped
CurrentLine == strip_line(Opened.lines[session_line + 1])

InLoop ==
    /\ session_pc = "lines"
    /\ session_line < Len(Opened.lines)

\* lines 100-108: resolve the path and refuse one outside the sessions
\* directory
ValidatePath ==
    /\ session_pc = "start"
    /\ filepath' = resolve(filepath_arg)
    /\ IF ~InSessionsDir(filepath')
       THEN /\ stderr' = Append(stderr, Report("security", 0, ""))
            /\ session_pc' = "returned"
       ELSE /\ session_pc' = "size"
            /\ UNCHANGED stderr
    /\ UNCHANGED <<filepath_arg, session_file, parse_patch, sessions, fs_calls,
                   session_line, optVars, parseVars, trackVars, watchVars, extractVars,
                   formatVars>>

\* lines 110-121: stat the file and refuse one over the limit; "except
\* OSError: pass" when the file cannot be stat'ed
CheckFileSize ==
    /\ session_pc = "size"
    /\ fs_calls' = Append(fs_calls, [op |-> "stat", file |-> Target(filepath)])
    /\ IF Target(filepath) \in ExistingFiles /\ TooLarge(FileSize(Opened))
       THEN /\ stderr' = Append(stderr, Report("too_large", 0, "100MB"))
            /\ session_pc' = "returned"
       ELSE /\ session_pc' = "open"
            /\ UNCHANGED stderr
    /\ UNCHANGED <<filepath_arg, session_file, parse_patch, filepath, sessions,
                   session_line, optVars, parseVars, trackVars, watchVars, extractVars,
                   formatVars>>

\* "with open(filepath) as f" and the first read of the file, which decodes
\* it; a failure is caught by "except Exception" at line 145
OpenFile ==
    /\ session_pc = "open"
    /\ fs_calls' = Append(fs_calls, [op |-> "open", file |-> Target(filepath)])
    /\ IF Target(filepath) \notin ExistingFiles
       THEN /\ stderr' = Append(stderr, Report("read_error", 0, "No such file or directory"))
            /\ session_pc' = "returned"
       ELSE IF \E i \in 1..Len(Opened.lines) : Opened.lines[i] = UndecodableLine
       THEN /\ stderr' = Append(stderr, Report("read_error", 0, "codec can't decode byte"))
            /\ session_pc' = "returned"
       ELSE /\ session_pc' = "lines"
            /\ UNCHANGED stderr
    /\ UNCHANGED <<filepath_arg, session_file, parse_patch, filepath, sessions,
                   session_line, optVars, parseVars, trackVars, watchVars, extractVars,
                   formatVars>>

\* "line = line.strip(); if line:" is false
SkipBlankLine ==
    /\ InLoop
    /\ CurrentLine = ""
    /\ session_line' = session_line + 1
    /\ UNCHANGED <<filepath_arg, session_file, parse_patch, filepath, session_pc,
                   sessions, stderr, fs_calls, optVars, parseVars, trackVars, watchVars,
                   extractVars, formatVars>>

\* lines 129-132: the line is loaded and normalized
AppendParsed ==
    /\ InLoop
    /\ CurrentLine # ""
    /\ json_loads(CurrentLine).ok
    /\ ParseEntryException(json_loads(CurrentLine).value) = NoException
    /\ sessions' = Append(sessions, parse_entry(json_loads(CurrentLine).value))
    /\ session_line' = session_line + 1
    /\ UNCHANGED <<filepath_arg, session_file, parse_patch, filepath, session_pc,
                   stderr, fs_calls, optVars, parseVars, trackVars, watchVars,
                   extractVars, formatVars>>

\* lines 133-135: "except json.JSONDecodeError as e"
ReportJsonError ==
    /\ InLoop
    /\ CurrentLine # ""
    /\ json_loads(CurrentLine).exc = "JSONDecodeError"
    /\ stderr' = Append(stderr, Report("json_error", session_line + 1, "JSONDecodeError message"))
    /\ session_line' = session_line + 1
    /\ UNCHANGED <<filepath_arg, session_file, parse_patch, filepath, session_pc,
                   sessions, fs_calls, optVars, parseVars, trackVars, watchVars,
                   extractVars, formatVars>>

\* lines 136-144: "except (ValueError, TypeError, KeyError, AttributeError)"
KeepRawTagged ==
    /\ InLoop
    /\ CurrentLine # ""
    /\ json_loads(CurrentLine).ok
    /\ LET raw == json_loads(CurrentLine).value
           e == ParseEntryException(raw)
       IN  /\ e # NoException
           /\ e.class \in CaughtParserErrors
           /\ raw.tag = "obj"
           /\ stderr' = Append(stderr, Report("parse_error", session_line + 1, e.class))
           /\ sessions' = Append(sessions, Tagged(raw, e))
    /\ session_line' = session_line + 1
    /\ UNCHANGED <<filepath_arg, session_file, parse_patch, filepath, session_pc,
                   fs_calls, optVars, parseVars, trackVars, watchVars, extractVars,
                   formatVars>>

\* lines 145-146: an exception the loop body does not catch ends the reading
AbortReading ==
    /\ InLoop
    /\ CurrentLine # ""
    /\ Escaping(CurrentLine) # NoException
    /\ stderr' = stderr \o (IF json_loads(CurrentLine).ok
                           /\ ParseEntryException(json_loads(CurrentLine).value).class
                                \in CaughtParserErrors
                        THEN <<Report("parse_error", session_line + 1,
                                      ParseEntryException(json_loads(CurrentLine).value).class),
                               Report("read_error", 0, Escaping(CurrentLine).msg)>>
                        ELSE <<Report("read_error", 0, Escaping(CurrentLine).msg)>>)
    /\ session_pc' = "returned"
    /\ UNCHANGED <<filepath_arg, session_file, parse_patch, filepath, sessions,
                   fs_calls, session_line, optVars, parseVars, trackVars, watchVars,
                   extractVars, formatVars>>

\* the file is read to its end: "return sessions"
ReturnSessions ==
    /\ session_pc = "lines"
    /\ session_line = Len(Opened.lines)
    /\ session_pc' = "returned"
    /\ UNCHANGED <<filepath_arg, session_file, parse_patch, filepath, sessions,
                   stderr, fs_calls, session_line, optVars, parseVars, trackVars,
                   watchVars, extractVars, formatVars>>

NextSession ==
    \/ ValidatePath
    \/ CheckFileSize
    \/ OpenFile
    \/ SkipBlankLine
    \/ AppendParsed
    \/ ReportJsonError
    \/ KeepRawTagged
    \/ AbortReading
    \/ ReturnSessions

SpecSession == InitSession /\ [][NextSession]_vars

(***************************************************************************)
(* format_conversation_entry run over the entries of a conversation        *)
(***************************************************************************)
\* a tool_use item of an assistant message
BashToolUse ==
    JObj("type" :> JStr("tool_use") @@ "id" :> JStr("t1") @@ "name" :> JStr("Bash")
         @@ "input" :> JObj("command" :> JStr("ls")))

UserEntry == "type" :> JStr("user")

\* a message whose content is one tool_result item
ToolResultMessage ==
    JObj("content" :> JList(<<JObj("type" :> JStr("tool_result")
                                   @@ "content" :> JList(<<
                                        JObj("type" :> JStr("text")
                                             @@ "text" :> JStr("Task completed analysis"))>>))>>))

\* a tool-result entry that carries what the tracker resolved for a Task
\* invocation
TaskResultEntry ==
    JObj(UserEntry
         @@ "_task_info" :> JObj("name" :> JStr("Task")
                                 @@ "subagent_type" :> JStr("general-purpose")
                                 @@ "description" :> JStr("Analyze code"))
         @@ "message" :> ToolResultMessage)

\* a tool-result entry that carries what the tracker resolved for an
\* ordinary tool
ToolResultEntry ==
    JObj(UserEntry
         @@ "_tool_info" :> JObj("name" :> JStr("TodoWrite")
                                 @@ "input" :> JObj("todos" :> JList(<<>>)))
         @@ "message" :> ToolResultMessage)

\* a tool-result entry for which the tracker resolved nothing
UncorrelatedResultEntry == JObj(UserEntry @@ "message" :> ToolResultMessage)

\* the entries conversations are built from
FormatEntries ==
    {JObj(UserEntry @@ "message" :> JObj("content" :> JStr("Hello"))),
     JObj("type" :> JStr("assistant")
          @@ "message" :> JObj("content" :> JList(<<BashToolUse>>))),
     JObj(UserEntry @@ "toolUseResult" :> JStr("file1 file2")),
     JObj(UserEntry @@ "toolUseResult" :> JStr(" file1 file2 ")),
     JObj(UserEntry @@ "toolUseResult" :> JStr("Error: command failed")),
     JObj(UserEntry @@ "toolUseResult" :> JObj("stdout" :> JStr("file1 file2"))),
     JObj(UserEntry @@ "toolUseResult"
                       :> JList(<<JObj("type" :> JStr("tool_result")
                                       @@ "content" :> JStr("file1 file2"))>>)),
     JObj(UserEntry @@ "toolUseResult" :> JStr("file1 file2") @@ "isMeta" :> JBool("True")),
     JObj(UserEntry @@ "toolUseResult" :> JStr("file1 file2")
                    @@ "isSidechain" :> JBool("True")),
     JObj(UserEntry @@ "toolUseResult" :> JStr("file1 file2")
                    @@ "message" :> JObj("content" :> JStr("Hello"))),
     JObj("type" :> JStr("system") @@ "content" :> JStr("Build Error")),
     JObj("type" :> JStr("system") @@ "content" :> JStr("PreToolUse hook ran")),
     JObj("type" :> JStr("system") @@ "content" :> JStr("Task completed successfully")),
     JObj("type" :> JStr("summary") @@ "summary" :> JStr("s")),
     TaskResultEntry,
     ToolResultEntry,
     UncorrelatedResultEntry}

\* option strings the entries are formatted under
FormatOptStrings == {<<>>, <<"A">>, <<"a">>, <<"o">>, <<"y">>}

InitFormat ==
    /\ opt_pc = "ready"
    /\ options_string \in FormatOptStrings
    /\ show_options = ShowOptions(options_string).opts
    /\ status_printed = <<>>
    /\ exit_status = -1
    /\ rendered_count = 0
    /\ trunc_query = [text_type |-> "none", truncate |-> TRUE, max_length |-> 0]
    /\ ParseIdle
    /\ TrackerEmpty
    /\ ExtractIdle
    /\ SessionIdle
    /\ WatchIdle
    /\ conversation \in SeqsUpTo(FormatEntries, MaxEntries)
    /\ normalized_first \in BOOLEAN
    /\ outputs = <<>>

\* the entry format_conversation_entry is given for an entry of the
\* conversation
EntryGiven(raw) == IF normalized_first THEN parse_entry(raw) ELSE raw.obj

\* format_conversation_entry(entry, show_options) on the next entry
FormatNextEntry ==
    /\ Len(outputs) < Len(conversation)
    /\ outputs' = Append(outputs,
                         format_conversation_entry(
                             EntryGiven(conversation[Len(outputs) + 1]), show_options))
    /\ UNCHANGED <<conversation, normalized_first, optVars, parseVars, trackVars,
                   watchVars, extractVars, sessVars>>

NextFormat == FormatNextEntry

SpecFormat == InitFormat /\ [][NextFormat]_vars

(***************************************************************************)
(* Properties of the watcher                                               *)
(***************************************************************************)
\* lines appended between the moment the previous tick finished looking at
\* the file and the moment the current tick did
Batch == SubSeq(file, batch_from + 1, end_len)

\* what the current tick has printed
PollOut == SubSeq(stdout, poll_mark + 1, Len(stdout))

\* a well-formed line that the active filter renders
WellFormedRendered(line) ==
    /\ strip_line(line) # ""
    /\ json_loads(strip_line(line)).ok
    /\ Rendering(strip_line(line), show_options).raised = ""
    /\ Rendering(strip_line(line), show_options).out # <<>>

\* the tick printed exactly the renderings of the appended lines, one per
\* line, in file order
OnePerLineInOrder ==
    /\ Len(PollOut) = Len(Batch)
    /\ \A i \in 1..Len(Batch) :
         /\ PollOut[i].line_num = batch_from + i
         /\ PollOut[i].formatted = Rendering(strip_line(Batch[i]), show_options).out

\* the tick is over and the file grew, since the tick before, by lines that
\* are all well formed and rendered
GrewByRenderedLines ==
    /\ watch_pc = "sleep"
    /\ Batch # <<>>
    /\ \A i \in 1..Len(Batch) : WellFormedRendered(Batch[i])

FreshTexts ==
    /\ \A i, j \in 1..Len(Batch) : i # j => strip_line(Batch[i]) # strip_line(Batch[j])
    /\ \A i \in 1..Len(Batch) : \A k \in 1..batch_from :
         strip_line(Batch[i]) # strip_line(file[k])

LookedAt == IF watch_pc = "sleep" THEN end_len ELSE Len(file)

\* C2: a poll tick that finds the file content unchanged since the previous
\* tick prints nothing, and no line of the file, by position or by stripped
\* text, is printed twice, however often the file is re-read from its start.
C2_NoReEmit ==
    /\ watch_pc \in {"read", "sleep"} /\ LookedAt = batch_from => PollOut = <<>>
    /\ \A i, j \in 1..Len(stdout) :
         i # j => /\ stdout[i].line_num # stdout[j].line_num
                  /\ stdout[i].entry_key # stdout[j].entry_key

\* a tick re-reads, to its end, a file that has not changed since the tick
\* before and that holds a line an earlier tick printed
C2_Witness ==
    /\ watch_pc = "read"
    /\ line_num = Len(file)
    /\ Len(file) = batch_from
    /\ poll_mark = Len(stdout)
    /\ \E k \in 1..Len(stdout) : stdout[k].line_num <= line_num

\* an ESC key was pressed and no read has taken it yet
EscPending ==
    \E i \in 1..Len(stdin_fd \o stdin_buffer) : (stdin_fd \o stdin_buffer)[i] = "ESC"

\* C21: once an ESC key is pressed while the loop runs, the watch loop
\* eventually exits.
C21_EscEventuallyExits == (Watching /\ EscPending) ~> ~Watching

\* C21, the interrupt: it leaves the loop in the step that raises it
C21_InterruptExits == [][Interrupt => ~Watching']_vars

\* C21, after the exit: nothing more is printed
C21_NoOutputAfterExit == [][~Watching /\ watch_pc # "setup" => stdout' = stdout]_vars

\* C21, the poll interval: a tick begins only when time.sleep has returned
C21_SleepsBetweenTicks ==
    [][watch_pc' = "check_esc" /\ watch_pc # "check_esc" =>
           watch_pc \in {"setup", "sleep"}]_vars

\* watch_session_file is over: it returned, or an exception left it
WatchOver == watch_pc \in {"returned", "raised"}

LastReadLen == IF watch_pc = "sleep" THEN end_len ELSE batch_from

\* positions of the lines that read looked at although they lie beyond the
\* size its tick had got from stat(): the producer appended them after the
\* stat() and before the read reached the end of the file
RacedLines ==
    {k \in 1..LastReadLen : st_size(SubSeq(file, 1, k - 1)) >= last_size}

\* the records of stdout printed for the line at position k
PrintedFor(k) == {i \in 1..Len(stdout) : stdout[i].line_num = k}

\* the stripped text of line k differs from that of every earlier line
FreshLine(k) == \A j \in 1..(k - 1) : strip_line(file[j]) # strip_line(file[k])

\* C27 as stated: every complete line (well formed, rendered by the active
\* filter) that the producer appended after the tick's stat() and that the
\* tick's read looked at has exactly one output, during that read and during
\* the re-read of the following tick.
C27_RacedLineEmittedOnce ==
    \A k \in RacedLines :
        WellFormedRendered(file[k]) => Cardinality(PrintedFor(k)) = 1

\* C27 amended: such a line has exactly one output when its stripped text
\* differs from that of every earlier line of the file, and none when it
\* does not; no re-read adds an output for it.
C27_FreshRacedLineEmittedOnce ==
    \A k \in RacedLines :
        /\ WellFormedRendered(file[k]) /\ FreshLine(k) => Cardinality(PrintedFor(k)) = 1
        /\ ~FreshLine(k) => PrintedFor(k) = {}
        /\ Cardinality(PrintedFor(k)) <= 1
        /\ Cardinality({i \in 1..Len(stdout) :
                          stdout[i].entry_key = strip_line(file[k])}) <= 1

\* the tick after the race re-reads the whole file, to which nothing was
\* added meanwhile, and prints nothing for the fresh line that raced
C27_Witness ==
    /\ watch_pc = "read"
    /\ line_num = Len(file)
    /\ Len(file) = batch_from
    /\ poll_mark = Len(stdout)
    /\ \E k \in RacedLines :
         /\ WellFormedRendered(file[k])
         /\ FreshLine(k)
         /\ k >= 2

\* the line texts handed to json.loads so far
LoadedKeys(calls) == {calls[i] : i \in 1..Len(calls)}

\* C29: seen_entries only grows; a line text is handed to json.loads only in
\* the step that adds it to seen_entries, and only when it was not in the
\* set before; so no line text is parsed twice, whatever the first attempt
\* did, and a blank line is never parsed.
C29_ParsedAtMostOnce ==
    [][/\ seen_entries \subseteq seen_entries'
       /\ \/ loads_calls' = loads_calls
          \/ /\ Len(loads_calls') = Len(loads_calls) + 1
             /\ SubSeq(loads_calls', 1, Len(loads_calls)) = loads_calls
             /\ loads_calls'[Len(loads_calls')] \notin seen_entries
             /\ loads_calls'[Len(loads_calls')] \in seen_entries'
             /\ loads_calls'[Len(loads_calls')] # ""
       /\ LoadedKeys(loads_calls') = seen_entries'
       /\ Cardinality(seen_entries') = Len(loads_calls')]_vars

\* a later tick has re-read, without handing it to json.loads again, a
\* malformed line that an earlier tick failed to parse
C29_Witness ==
    /\ watch_pc = "read"
    /\ batch_from >= 1
    /\ line_num >= 1
    /\ file[1] = MalformedLine
    /\ ~json_loads(MalformedLine).ok
    /\ Cardinality({i \in 1..Len(loads_calls) : loads_calls[i] = MalformedLine}) = 1

EntryAliasLists == {
    <<"type", "entryType", "kind">>,
    aliases_get("timestamp", <<"timestamp">>),
    aliases_get("version", <<"version">>),
    aliases_get("uuid", <<"uuid", "id">>),
    aliases_get("session_id", <<"sessionId">>),
    aliases_get("request_id", <<"requestId">>),
    aliases_get("parent_uuid", <<"parentUuid">>),
    <<"message", "msg", "data", "payload">>,
    aliases_get("is_meta", <<"isMeta">>),
    aliases_get("is_sidechain", <<"isSidechain">>),
    aliases_get("tool_result", <<"toolUseResult">>),
    aliases_get("working_dir", <<"cwd">>),
    aliases_get("git_branch", <<"gitBranch">>),
    aliases_get("user_type", <<"userType">>),
    aliases_get("level", <<"level">>) }

\* every name some canonical field can be read from, the flattened-message
\* keys 'content' and 'text' included
AliasNames ==
    UNION {{l[i] : i \in 1..Len(l)} : l \in EntryAliasLists} \cup {"content", "text"}

\* the raw keys that supplied a canonical field: per field, its first alias present
MatchedKeys(entry) ==
    {l[Min({i \in 1..Len(l) : l[i] \in DOMAIN entry})] :
        l \in {m \in EntryAliasLists : \E i \in 1..Len(m) : m[i] \in DOMAIN entry}}

\* the raw keys stored in the unknown-field namespace of a normalized entry
UnknownKeys(norm, entry) == {key \in DOMAIN entry : unknown_name(key) \in DOMAIN norm}

IsSummary(entry) == _find_field(entry, <<"type", "entryType", "kind">>) = JStr("summary")

\* C9 as stated: every raw key no canonical alias matches, whatever its name,
\* is in the normalized entry under the unknown namespace with its value.
C9_UnknownKeptWhateverName ==
    (parse_pc = "done" /\ raw_entry.tag = "obj") =>
      \A key \in DOMAIN raw_entry.obj \ AliasNames :
         /\ unknown_name(key) \in DOMAIN normalized
         /\ normalized[unknown_name(key)] = raw_entry.obj[key]

\* C9: for every raw object whose logical type is not "summary", every key
\* that no canonical alias matches and that does not begin with an underscore
\* is in the normalized entry as _unknown_<key> with its original value.
C9_UnknownKept ==
    (parse_pc = "done" /\ raw_entry.tag = "obj" /\ ~IsSummary(raw_entry.obj)) =>
      \A key \in DOMAIN raw_entry.obj \ AliasNames :
         ~startswith_underscore(key) =>
            /\ unknown_name(key) \in DOMAIN normalized
            /\ normalized[unknown_name(key)] = raw_entry.obj[key]

C9_Witness ==
    /\ parse_pc = "done"
    /\ raw_entry.tag = "obj"
    /\ DOMAIN raw_entry.obj = {"type", "time", "new_field", "_private"}
    /\ raw_entry.obj["new_field"] = JNull
    /\ "_unknown_new_field" \in DOMAIN normalized
    /\ "_unknown__private" \notin DOMAIN normalized

\* C10: the keys stored in the unknown namespace are exactly the raw keys
\* minus the keys matched to a canonical field; a key that supplied a
\* canonical field through an alias is not stored as unknown too.
C10_UnknownIsRawMinusMatched ==
    (parse_pc = "done" /\ raw_entry.tag = "obj") =>
      UnknownKeys(normalized, raw_entry.obj) =
          DOMAIN raw_entry.obj \ MatchedKeys(raw_entry.obj)

\* the keys every normalized entry carries
CanonicalKeys == {"_raw", "type", "timestamp", "version", "uuid", "sessionId", "requestId",
                  "parentUuid", "message", "isMeta", "isSidechain", "toolUseResult",
                  "cwd", "gitBranch", "userType", "level"}

\* C11: parse_entry is total.  No call raises; for a JSON object, whatever
\* the types of its values, it returns a normalized entry (the entry itself
\* for a summary, else a dict with every canonical key and the object under
\* _raw); for a value that is no object it returns a dict flagged with
\* _parse_error that carries the value under _raw.
C11_ParseEntryTotal ==
    /\ parse_pc # "raised"
    /\ parse_pc = "done" =>
         IF raw_entry.tag = "obj"
         THEN IF IsSummary(raw_entry.obj) THEN normalized = raw_entry.obj
              ELSE /\ CanonicalKeys \subseteq DOMAIN normalized
                   /\ normalized["_raw"] = raw_entry
                   /\ "_parse_error" \notin DOMAIN normalized
         ELSE normalized = [_raw |-> raw_entry, _parse_error |-> JStr("Not a dictionary")]

\* an object whose type is a list and whose message is a number was parsed
C11_Witness ==
    /\ parse_pc = "done"
    /\ raw_entry.tag = "obj"
    /\ "type" \in DOMAIN raw_entry.obj /\ raw_entry.obj["type"].tag = "list"
    /\ "message" \in DOMAIN raw_entry.obj /\ raw_entry.obj["message"].tag = "num"
    /\ normalized["message"] = JNull

C23_SummaryIsLightweight ==
    (parse_pc = "done" /\ raw_entry.tag = "obj" /\ IsSummary(raw_entry.obj)) =>
      /\ "type" \in DOMAIN normalized /\ normalized["type"] = JStr("summary")
      /\ \A key \in {"summary", "leafUuid"} \cap DOMAIN raw_entry.obj :
            key \in DOMAIN normalized /\ normalized[key] = raw_entry.obj[key]
      /\ \A field \in CanonicalKeys \ {"_raw", "type"} :
            field \in DOMAIN normalized /\ normalized[field] = JNull


\* C24: when the raw message field is a string s, the normalized message is
\* exactly {role: "unknown", content: s}, whatever the type and the other
\* fields of the entry.
C24_StringMessageHasUnknownRole ==
    (/\ parse_pc = "done"
     /\ raw_entry.tag = "obj"
     /\ "message" \in DOMAIN raw_entry.obj
     /\ raw_entry.obj["message"].tag = "str") =>
      /\ "message" \in DOMAIN normalized
      /\ normalized["message"] =
            JObj([role |-> JStr("unknown"), content |-> raw_entry.obj["message"]])


\* the canonical fields of a normalized entry, each with its alias list in
\* priority order
FieldAliasLists == [
    type          |-> <<"type", "entryType", "kind">>,
    timestamp     |-> aliases_get("timestamp", <<"timestamp">>),
    version       |-> aliases_get("version", <<"version">>),
    uuid          |-> aliases_get("uuid", <<"uuid", "id">>),
    sessionId     |-> aliases_get("session_id", <<"sessionId">>),
    requestId     |-> aliases_get("request_id", <<"requestId">>),
    parentUuid    |-> aliases_get("parent_uuid", <<"parentUuid">>),
    message       |-> <<"message", "msg", "data", "payload">>,
    isMeta        |-> aliases_get("is_meta", <<"isMeta">>),
    isSidechain   |-> aliases_get("is_sidechain", <<"isSidechain">>),
    toolUseResult |-> aliases_get("tool_result", <<"toolUseResult">>),
    cwd           |-> aliases_get("working_dir", <<"cwd">>),
    gitBranch     |-> aliases_get("git_branch", <<"gitBranch">>),
    userType      |-> aliases_get("user_type", <<"userType">>),
    level         |-> aliases_get("level", <<"level">>) ]

RECURSIVE FirstPresent(_, _)
\* the value of the first alias of the list that is a key of the entry, None
\* when none is
FirstPresent(aliases, entry) ==
    IF aliases = <<>> THEN JNull
    ELSE IF Head(aliases) \in DOMAIN entry THEN entry[Head(aliases)]
    ELSE FirstPresent(Tail(aliases), entry)

\* the normalized entry holds, for the field, the value of its first alias
\* present
FirstAliasWins(field) ==
    /\ field \in DOMAIN normalized
    /\ normalized[field] = FirstPresent(FieldAliasLists[field], raw_entry.obj)

RECURSIVE Depth(_)
\* how deep a content is nested: 0 for a scalar, else one more than its
\* deepest member
Depth(v) ==
    CASE v.tag = "obj" ->
            1 + Max({0} \cup {Depth(v.obj[k]) : k \in DOMAIN v.obj})
      [] v.tag = "list" ->
            1 + Max({0} \cup {Depth(v.list[i]) : i \in 1..Len(v.list)})
      [] OTHER -> 0

\* C13 as stated: text extraction from content nested deeper than
\* MAX_RECURSION_DEPTH returns the sentinel "[Content too deeply nested]".
C13_DeepContentYieldsSentinel ==
    extract_pc = "done" /\ Depth(content_in) > MAX_RECURSION_DEPTH
      => extracted = JStr("[Content too deeply nested]")

\* the text the item of a list content yields: a string itself, a number its
\* digits, an object the text under its first text-bearing field, and
\* nothing for null and for an object without such a field
ItemText(item) ==
    CASE item.tag = "str" -> item.str
      [] item.tag = "num" -> item.str
      [] item.tag = "obj" ->
            LET text == FirstFieldText(item.obj, <<"text", "content", "value", "data">>)
            IN  IF Truthy(text) THEN text.str ELSE ""
      [] OTHER -> ""

RECURSIVE NonEmpty(_)
NonEmpty(strs) ==
    IF strs = <<>> THEN <<>>
    ELSE (IF Head(strs) = "" THEN <<>> ELSE <<Head(strs)>>) \o NonEmpty(Tail(strs))

\* C14 as stated: for list content the extracted text is the texts of the
\* items joined by newline in the items' order, and an item that yields no
\* text (an empty string, a null, an object with no text-bearing field)
\* contributes nothing.
C14_ListJoinSkipsEmpty ==
    extract_pc = "done" /\ content_in.tag = "list" /\ content_in.list # <<>>
      => LET texts == NonEmpty([i \in 1..Len(content_in.list) |->
                                  ItemText(content_in.list[i])])
         IN  extracted = IF texts = <<>> THEN JNull ELSE JStr(Join(texts, "\n"))

(***************************************************************************)
(* Properties of parse_session_file                                        *)
(***************************************************************************)
\* the call was given a path to an existing file inside the sessions
\* directory that is not over the size limit
FileAccepted ==
    /\ InSessionsDir(Target(filepath_arg))
    /\ Target(filepath_arg) \in ExistingFiles
    /\ FileSize(FileAt(Target(filepath_arg))) <= MAX_FILE_SIZE

\* the lines of the file the call was given
GivenLines == FileAt(Target(filepath_arg)).lines

\* a line is blank when nothing but white space is on it
IsBlank(line) == line \in {BlankLine}

\* a line that is a JSON text
ValidJson(line) == line \in {UserHello, UserHelloPadded, AssistantTool, SystemNote,
                             NumberLine, DeepLine}

\* positions of the non-blank lines that are valid JSON
ValidPositions == {i \in 1..Len(GivenLines) : ~IsBlank(GivenLines[i]) /\ ValidJson(GivenLines[i])}

\* positions of the non-blank lines that are not valid JSON
InvalidPositions == {i \in 1..Len(GivenLines) : ~IsBlank(GivenLines[i]) /\ ~ValidJson(GivenLines[i])}

\* C15: for an accepted session file, parse_session_file returns exactly one
\* entry per non-blank line that is valid JSON, and every line that is not
\* valid JSON is reported with its line number (so the lines after it were
\* still processed).
C15_OneEntryPerValidLine ==
    session_pc = "returned" /\ FileAccepted /\ parse_patch = NoPatch
    => /\ Len(sessions) = Cardinality(ValidPositions)
       /\ \A i \in InvalidPositions :
            \E k \in 1..Len(stderr) : stderr[k].kind = "json_error" /\ stderr[k].line = i

RECURSIVE TaggedObjects(_, _)
\* the objects among the lines, each with the marker put under _parse_error
TaggedObjects(lines, marker) ==
    IF lines = <<>> THEN <<>>
    ELSE LET loaded == json_loads(strip_line(Head(lines)))
         IN  (IF loaded.ok /\ loaded.value.tag = "obj"
              THEN <<("_parse_error" :> JStr(marker)) @@ loaded.value.obj>>
              ELSE <<>>)
             \o TaggedObjects(Tail(lines), marker)

\* the lines the loop has dealt with
LinesRead == SubSeq(GivenLines, 1, session_line)

\* every object read so far is in the result with the class name as marker,
\* and the exception's message is nowhere on stderr
RawKeptAndSanitized ==
    /\ sessions = TaggedObjects(LinesRead, parse_patch.class)
    /\ \A k \in 1..Len(stderr) : stderr[k].text # parse_patch.msg

C17_NeverReadsOutsideRoot ==
    /\ \A k \in 1..Len(fs_calls) : InSessionsDir(fs_calls[k].file)
    /\ session_pc # "start" /\ ~InSessionsDir(Target(filepath_arg))
       => /\ session_pc = "returned"
          /\ sessions = <<>>
          /\ stderr = <<Report("security", 0, "")>>
          /\ fs_calls = <<>>

C17_Witness ==
    /\ session_pc = "returned"
    /\ filepath_arg = home_sessions \o <<"p", "evil_link">>
    /\ stderr = <<Report("security", 0, "")>>
    /\ fs_calls = <<>>

HoldsToolUse(raw) ==
    /\ Get(raw.obj, "type") = JStr("assistant")
    /\ Get(raw.obj, "message").tag = "obj"
    /\ Get(Get(raw.obj, "message").obj, "content").tag = "list"
    /\ \E k \in 1..Len(Get(Get(raw.obj, "message").obj, "content").list) :
         Get(Get(Get(raw.obj, "message").obj, "content").list[k].obj, "type")
           = JStr("tool_use")

\* a user-type entry that carries toolUseResult and no message
CarriesResultOnly(raw) ==
    /\ Get(raw.obj, "type") = JStr("user")
    /\ "toolUseResult" \in DOMAIN raw.obj
    /\ "message" \notin DOMAIN raw.obj

\* positions of the formatted entries that carry a tool result only and
\* follow an assistant entry holding a tool_use item, under the default filter
ResultPositions ==
    IF options_string # <<>> THEN {}
    ELSE {i \in 2..Len(outputs) : /\ HoldsToolUse(conversation[i - 1])
                                  /\ CarriesResultOnly(conversation[i])}

ResultKinds == {"Result", "ToolError", "ResultItem"}

\* C19 as stated: under the default filter, a user-type entry that carries
\* toolUseResult and no message text and follows an assistant entry with a
\* tool_use item is rendered as tool-result lines, never as a 'User:' line.
C19_ResultEntryRendersAsToolResult ==
    \A i \in ResultPositions :
        /\ outputs[i].raised = ""
        /\ outputs[i].out # <<>>
        /\ \A k \in 1..Len(outputs[i].out) : outputs[i].out[k].kind \in ResultKinds

\* the lines a toolUseResult is to be rendered as
ExpectedResultLines(raw) ==
    LET result == raw.obj["toolUseResult"]
        hidden == \/ Get(raw.obj, "isMeta") = JBool("True")
                  \/ Get(raw.obj, "isSidechain") = JBool("True")
    IN  IF hidden THEN <<>>
        ELSE IF result = JStr("file1 file2") \/ result = JStr(" file1 file2 ")
             THEN <<[kind |-> "Result", text |-> "file1 file2", cap |-> 500]>>
        ELSE IF result = JStr("Error: command failed")
             THEN <<[kind |-> "ToolError", text |-> "Error: command failed", cap |-> 500]>>
        ELSE IF result.tag = "list"
             THEN <<[kind |-> "ResultItem", text |-> "file1 file2", cap |-> 500]>>
        ELSE <<>>

\* C19 amended: under the default filter, a user-type entry that carries
\* toolUseResult and no message, is neither a meta nor a sidechain entry and
\* follows an assistant entry with a tool_use item is rendered as one
\* tool-result line holding the stripped result text (cut at 500
\* characters; an error line for a text that starts with 'Error:') when the
\* result is a non-blank string, and as one line per item with a string
\* content when the result is a list; a result of another shape, a meta entry and a sidechain
\* entry render nothing.  In no case is a 'User:' line rendered.
C19_TextResultRendersAsToolResult ==
    \A i \in ResultPositions :
        /\ outputs[i].raised = ""
        /\ outputs[i].out = ExpectedResultLines(conversation[i])

C19_Witness ==
    /\ options_string = <<>>
    /\ Len(outputs) = 2
    /\ HoldsToolUse(conversation[1])
    /\ conversation[2] = JObj("type" :> JStr("user") @@ "toolUseResult" :> JStr("file1 file2"))
    /\ outputs[2].out = <<[kind |-> "Result", text |-> "file1 file2", cap |-> 500]>>

\* C20: with the option string "A", format_conversation_entry gives no
\* output for any entry: user, assistant, system or summary.
C20_DisableAllHidesEverything ==
    options_string = <<"A">>
    => \A i \in 1..Len(outputs) : outputs[i].raised = "" /\ outputs[i].out = <<>>

\* a rendering holds a line of the given kind
HasLine(lines, kind) == \E i \in 1..Len(lines) : lines[i].kind = kind

\* C22: a tool-result entry that carries the Task invocation the tracker
\* resolved for it renders as a subagent result and never as a 'User:'
\* line; one that carries an ordinary tool renders as a '<ToolName> Result:'
\* line; one that carries neither never renders a subagent label.
C22_TaskResultRendersAsSubagent ==
    \A i \in 1..Len(outputs) :
        /\ conversation[i] = TaskResultEntry /\ show_options.tools =>
              /\ outputs[i].raised = ""
              /\ HasLine(outputs[i].out, "Subagent")
              /\ ~HasLine(outputs[i].out, "User")
        /\ conversation[i] = ToolResultEntry /\ show_options.tools =>
              /\ outputs[i].raised = ""
              /\ HasLine(outputs[i].out, "ToolNameResult")
              /\ ~HasLine(outputs[i].out, "User")
        /\ conversation[i] = UncorrelatedResultEntry =>
              ~HasLine(outputs[i].out, "Subagent")

\* C25: with the system toggle on, every system entry with non-empty
\* content that is normalized by parse_entry and then handed to
\* format_conversation_entry renders as a 'System:' line holding the content.
C25_SystemEntryShownUnderY ==
    \A i \in 1..Len(outputs) :
        (/\ normalized_first
         /\ show_options.system
         /\ Get(conversation[i].obj, "type") = JStr("system")
         /\ Get(conversation[i].obj, "content").tag = "str"
         /\ Get(conversation[i].obj, "content").str # "") =>
           /\ outputs[i].raised = ""
           /\ \E k \in 1..Len(outputs[i].out) :
                /\ outputs[i].out[k].kind = "System"
                /\ outputs[i].out[k].text =
                      remove_ansi(Get(conversation[i].obj, "content").str)


(***************************************************************************)
(* Properties of the tracker                                               *)
(***************************************************************************)
\* the positions of the log, among those recorded before the last lookup,
\* holding a tool_use item recorded under id
LoggedUnder(id) ==
    {i \in 1..resolved.after : Get(track_log[i].obj, "id") = JStr(id)}

\* C5: a lookup for an entry whose tool result refers to an id recorded
\* earlier gives exactly the name and input stored for that id; a lookup for
\* an entry referring to an id never recorded gives None.
C5_ResolveStored ==
    (resolved.asked /\ ToolResultId(resolved.entry) # <<>>) =>
      LET id == ToolResultId(resolved.entry)[1] IN
      /\ LoggedUnder(id) # {} =>
            /\ resolved.result # <<>>
            /\ resolved.result[1].name = Get(track_log[Max(LoggedUnder(id))].obj, "name")
            /\ resolved.result[1].input = Get(track_log[Max(LoggedUnder(id))].obj, "input")
      /\ LoggedUnder(id) = {} => resolved.result = <<>>

C5_Witness ==
    /\ resolved.asked
    /\ ToolResultId(resolved.entry) = <<"tool-123">>
    /\ LoggedUnder("tool-123") # {}
    /\ LoggedUnder("task-456") # {}
    /\ resolved.result # <<>>
    /\ resolved.result[1].name = JStr("Bash")

(***************************************************************************)
(* Properties of the option filter                                         *)
(***************************************************************************)
HasQuestionMark(s) == \E i \in 1..Len(s) : s[i] = "?"

\* C3: the documented option strings give the stated toggle sets: "" enables
\* exactly user, assistant and tools; "a" every toggle; "aH" every toggle but
\* hooks; "A" none; "Aqw" only user and assistant; "sm" the defaults plus
\* summaries and metadata.
C3_TruthTable ==
    opt_pc = "ready" =>
      /\ options_string = <<>> => Enabled(show_options) = {"user", "assistant", "tools"}
      /\ options_string = <<"a">> => Enabled(show_options) = Toggles
      /\ options_string = <<"a", "H">> => Enabled(show_options) = Toggles \ {"hooks"}
      /\ options_string = <<"A">> => Enabled(show_options) = {}
      /\ options_string = <<"A", "q", "w">> => Enabled(show_options) = {"user", "assistant"}
      /\ options_string = <<"s", "m">> =>
            Enabled(show_options) = {"user", "assistant", "tools", "summaries", "metadata"}

C3_Witness ==
    /\ opt_pc = "ready"
    /\ options_string = <<"s", "m">>
    /\ Enabled(show_options) = {"user", "assistant", "tools", "summaries", "metadata"}

FlagOf(attr) == OPTIONS[CHOOSE i \in 1..Len(OPTIONS) : OPTIONS[i][2] = attr][1]

\* the positions of s holding a character that affects the toggle attr
AffectingPositions(s, attr) ==
    {i \in 1..Len(s) : s[i] = "a" \/ s[i] = "A" \/ lower(s[i]) = FlagOf(attr)}

\* the value the last affecting character writes, the default when there is none
LastWriteValue(s, attr) ==
    IF AffectingPositions(s, attr) = {} THEN attr \in DEFAULT_ENABLED
    ELSE LET c == s[Max(AffectingPositions(s, attr))]
         IN  IF c = "A" THEN FALSE ELSE IF c = "a" THEN TRUE ELSE ~isupper(c)

\* C4: parsing is left-to-right last-write-wins: every toggle ends with the
\* value written by the last character that affects it (its letter in either
\* case, 'a' or 'A') and with its default when no character affects it; "aH"
\* ends with hooks disabled, "Ha" with every toggle enabled.
C4_LastWriteWins ==
    opt_pc = "ready" =>
      /\ \A attr \in Toggles : show_options[attr] = LastWriteValue(options_string, attr)
      /\ options_string = <<"a", "H">> => ~show_options["hooks"]
      /\ options_string = <<"H", "a">> => Enabled(show_options) = Toggles

C4_Witness ==
    /\ opt_pc = "ready"
    /\ options_string = <<"H", "a">>
    /\ show_options["hooks"]

\* a character that is neither a flag letter in either case nor 'a', 'A', '?'
IsUnknownChar(c) ==
    /\ c \notin {"a", "A", "?"}
    /\ \A i \in 1..Len(OPTIONS) : lower(c) # OPTIONS[i][1]

RECURSIVE StripUnknown(_)
StripUnknown(s) ==
    IF s = <<>> THEN <<>>
    ELSE IF IsUnknownChar(Head(s)) THEN StripUnknown(Tail(s))
         ELSE <<Head(s)>> \o StripUnknown(Tail(s))

\* C6: parsing any option string yields a configuration over the fixed
\* attribute set, and the characters that are no flag letter change nothing:
\* the configuration equals the one the string without them gives.
C6_ClosedToggleSet ==
    opt_pc # "start" =>
      /\ show_options \in [Attrs -> BOOLEAN]
      /\ \A attr \in Toggles :
            show_options[attr] =
                LastWriteValue(StripUnknown(FilterSeq(options_string, "?")), attr)
      /\ opt_pc = "exited" <=> HasQuestionMark(options_string)

C6_Witness ==
    /\ opt_pc = "ready"
    /\ options_string = <<"s", "z", "m">>
    /\ Enabled(show_options) = {"user", "assistant", "tools", "summaries", "metadata"}

\* C7: an option string holding '?' at any position makes the program print
\* the toggle set the other characters give, exit with status 0 and render
\* no entry.
C7_StatusReportExits ==
    (opt_pc # "start" /\ HasQuestionMark(options_string)) =>
      /\ opt_pc = "exited"
      /\ exit_status = 0
      /\ status_printed =
            <<{attr \in Toggles : LastWriteValue(FilterSeq(options_string, "?"), attr)}>>
      /\ rendered_count = 0

C7_Witness ==
    /\ opt_pc = "exited"
    /\ options_string = <<"a", "?", "H">>
    /\ status_printed = <<Toggles \ {"hooks"}>>

\* C8: for the tool_param and tool_result categories the cap is unbounded
\* whenever unfiltered or tool_details is set, and is 200 / 500 when neither is.
C8_ToolDetailsUnbounded ==
    trunc_query.text_type \in {"tool_param", "tool_result"} =>
      /\ (show_options["unfiltered"] \/ show_options["tool_details"]) =>
            (~trunc_query.truncate /\ trunc_query.max_length = Infinity)
      /\ (~show_options["unfiltered"] /\ ~show_options["tool_details"]) =>
            /\ trunc_query.truncate
            /\ trunc_query.max_length =
                  (IF trunc_query.text_type = "tool_param" THEN 200 ELSE 500)

====
